---- MODULE Spec2Model ----
(***************************************************************************)
(* A model of the mudproto protocol stack: the Telnet byte parser and its  *)
(* option negotiation, the handler-chain Manager, the MCCP splicer, the    *)
(* MPI framing machine and the MUME XML tokenizer.  Bytes are integers     *)
(* 0..255, byte strings are sequences of them.  Each component has its own *)
(* specification (SpecParse, SpecNeg, ...) over the shared variables.      *)
(***************************************************************************)
EXTENDS Integers, Sequences, FiniteSets, TLC

VARIABLES
    \* Telnet byte parser (SpecParse): the bytes chosen so far, one handler
    \* fed one byte per call and one handler fed the bytes in a single call.
    input, pOne, pAll, phase,
    \* Telnet option negotiation (SpecNeg): the option table of one handler
    \* and the record of its last two calls or dispatches.
    option_states, log,
    \* Manager (SpecManager): its fields, the _receiver and class of every
    \* handler instance constructed so far, what the transport writer and the
    \* application receiver were given, the instances on which
    \* on_connection_lost was called (in call order), the instances on which
    \* on_connection_made was called (in call order), and the last register
    \* or unregister call.
    is_connected, read_buffer, write_buffer, handlers,
    receiver, handler_class, sent, delivered, lost, made, last_call,
    \* MCCP (SpecMCCP): the fields of a Telnet handler with the MCCP mix-in
    \* (its Telnet parser, its option table for the two MCCP options), the
    \* exception its last on_data_received call raised, the bytes the peer
    \* has sent that are still to be received, and the number of messages
    \* the peer has sent.
    compression_enabled, mccp_version, compressed_input_buffer, decompressor,
    mccp_telnet, mccp_option_states, mccp_raised, wire, peer_sent,
    \* Threads (SpecThreads): the Manager fields above, shared by the main
    \* context and an MPI worker thread; for each thread the source line it
    \* is about to execute and its local variable data; and the messages
    \* that were passed to Manager.write so far.
    pc, frame, issued,
    \* MPI (SpecMPI): an MPIProtocol handler (its fields and what it has
    \* passed on or dispatched so far), the bytes the peer has sent that are
    \* still to be received, the bytes received so far, and the number of
    \* pieces the peer has sent.
    mpi, mpi_wire, mpi_received, mpi_sent,
    \* XML (SpecXML): an XMLProtocol handler (its fields and what it has
    \* passed on and reported so far), the bytes the peer has sent that are
    \* still to be received, the bytes received so far, and the number of
    \* pieces the peer has sent.
    xml, xml_wire, xml_received, xml_sent,
    \* Round trips (SpecRoundTrip): the payload chosen, the call this side made
    \* with it, the bytes written that the peer has still to receive, and the
    \* peer's Telnet handler.
    rt_data, rt_call, rt_wire, rt_peer,
    \* Replay (SpecReplay): the Manager fields above with a Telnet handler; the
    \* messages passed to Manager.parse so far, and the data of each
    \* handlers[0].on_data_received call.
    parsed, given,
    \* Registration (SpecRegistration): the Manager fields above, and the
    \* argument of the last register or unregister call.
    asked,
    \* Join (SpecJoin): MPIProtocol._mpi_threads, each worker thread's state and
    \* command, and the place of the context that runs on_connection_lost.
    mpi_threads, thread_state, thread_target, lost_pc, join_at,
    \* Stream (SpecStream): the MCCP fields above with a server that keeps to
    \* MCCP: where the server is in its stream, the option it offered, how many
    \* messages it sent, the bytes the handler was given, the bytes it passed to
    \* the Telnet layer, the server's stream without compression, and the part
    \* of it sent after the end of the compressed stream.
    stream_phase, stream_option, stream_sent, stream_received, stream_forwarded, stream_plain, stream_tail,
    \* Message (SpecMessage): the MPI fields above with whole messages: the kinds
    \* of message sent, the application bytes and the workers they call for.
    msg_kinds, msg_app, msg_threads,
    \* the document the game sent to the XMLProtocol handler
    markup_doc,
    \* the handler with GMCPMixIn, whether it is constructed and connected, and its calls
    gmcp, gmcp_phase, gmcp_log,
    \* a client and a server with NAWSMixIn, the server's Telnet layer, the bytes
    \* in flight from the client, and the sets of naws_dimensions on the client
    naws_client, naws_server, naws_telnet, naws_wire, naws_sets,
    \* Order (SpecOrder): the events the peer's items stand for, the bytes in
    \* flight, and the receiving Telnet handler
    order_items, order_wire, order_telnet,
    \* Link (SpecLink): two endpoints, the bytes in flight from each of them,
    \* whether they are constructed, and the numbers of calls and of commands written
    link, channel, link_phase, link_calls, link_written,
    \* Lifecycle (SpecLifecycle): the Manager call that returned last
    returned,
    \* Close (SpecClose): whether Manager.disconnect has returned
    disconnected,
    \* Sentinel (SpecSentinel): the MCCP option whose activation sentinel the peer sent
    sentinel_sent,
    \* BackToBack (SpecBackToBack): the bytes the peer has sent and the workers
    \* its messages are to start
    back_stream, back_threads,
    \* Charset (SpecCharset): two CharsetMixIn endpoints, what is in flight from each,
    \* and the numbers of negotiate_charset calls and of subnegotiations written
    charset_end, charset_channel, charset_calls, charset_written

parseVars == <<input, pOne, pAll, phase>>
negVars == <<option_states, log>>
managerVars == <<is_connected, read_buffer, write_buffer, handlers,
                 receiver, handler_class, sent, delivered, lost, made, last_call>>
mccpVars == <<compression_enabled, mccp_version, compressed_input_buffer, decompressor,
              mccp_telnet, mccp_option_states, mccp_raised, wire, peer_sent>>

threadVars == <<pc, frame, issued>>

mpiVars == <<mpi, mpi_wire, mpi_received, mpi_sent>>

xmlVars == <<xml, xml_wire, xml_received, xml_sent>>

roundTripVars == <<rt_data, rt_call, rt_wire, rt_peer>>

replayVars == <<parsed, given>>

registrationVars == <<asked>>

joinVars == <<mpi_threads, thread_state, thread_target, lost_pc, join_at>>

streamVars == <<stream_phase, stream_option, stream_sent, stream_received, stream_forwarded, stream_plain, stream_tail>>

messageVars == <<msg_kinds, msg_app, msg_threads>>

markupVars == <<markup_doc>>

gmcpVars == <<gmcp, gmcp_phase, gmcp_log>>

nawsVars == <<naws_client, naws_server, naws_telnet, naws_wire, naws_sets>>

orderVars == <<order_items, order_wire, order_telnet>>

linkVars == <<link, channel, link_phase, link_calls, link_written>>

lifecycleVars == <<returned>>

closeVars == <<disconnected>>

sentinelVars == <<sentinel_sent>>

backToBackVars == <<back_stream, back_threads>>

charsetVars == <<charset_end, charset_channel, charset_calls, charset_written>>

vars == <<parseVars, negVars, managerVars, mccpVars, threadVars, mpiVars, xmlVars, roundTripVars, replayVars, registrationVars, joinVars, streamVars, messageVars, markupVars, gmcpVars, nawsVars, orderVars, linkVars, lifecycleVars, closeVars, sentinelVars, backToBackVars, charsetVars>>

\* what the steps of one component leave alone
beyondParse == <<negVars, managerVars, mccpVars, threadVars, mpiVars, xmlVars, roundTripVars, replayVars, registrationVars, joinVars, streamVars, messageVars, markupVars, gmcpVars, nawsVars, orderVars, linkVars, lifecycleVars, closeVars, sentinelVars, backToBackVars, charsetVars>>
beyondNeg == <<parseVars, managerVars, mccpVars, threadVars, mpiVars, xmlVars, roundTripVars, replayVars, registrationVars, joinVars, streamVars, messageVars, markupVars, gmcpVars, nawsVars, orderVars, linkVars, lifecycleVars, closeVars, sentinelVars, backToBackVars, charsetVars>>
beyondManager == <<parseVars, negVars, mccpVars, threadVars, mpiVars, xmlVars, roundTripVars, replayVars, registrationVars, joinVars, streamVars, messageVars, markupVars, gmcpVars, nawsVars, orderVars, linkVars, lifecycleVars, closeVars, sentinelVars, backToBackVars, charsetVars>>
beyondMCCP == <<parseVars, negVars, managerVars, threadVars, mpiVars, xmlVars, roundTripVars, replayVars, registrationVars, joinVars, streamVars, messageVars, markupVars, gmcpVars, nawsVars, orderVars, linkVars, lifecycleVars, closeVars, sentinelVars, backToBackVars, charsetVars>>
beyondThreads == <<parseVars, negVars, mccpVars, mpiVars, xmlVars, roundTripVars, replayVars, registrationVars, joinVars, streamVars, messageVars, markupVars, gmcpVars, nawsVars, orderVars, linkVars, lifecycleVars, closeVars, sentinelVars, backToBackVars, charsetVars>>
beyondMPI == <<parseVars, negVars, managerVars, mccpVars, threadVars, xmlVars, roundTripVars, replayVars, registrationVars, joinVars, streamVars, messageVars, markupVars, gmcpVars, nawsVars, orderVars, linkVars, lifecycleVars, closeVars, sentinelVars, backToBackVars, charsetVars>>
beyondXML == <<parseVars, negVars, managerVars, mccpVars, threadVars, mpiVars, roundTripVars, replayVars, registrationVars, joinVars, streamVars, messageVars, markupVars, gmcpVars, nawsVars, orderVars, linkVars, lifecycleVars, closeVars, sentinelVars, backToBackVars, charsetVars>>
beyondRoundTrip == <<parseVars, negVars, managerVars, mccpVars, threadVars, mpiVars, xmlVars, replayVars, registrationVars, joinVars, streamVars, messageVars, markupVars, gmcpVars, nawsVars, orderVars, linkVars, lifecycleVars, closeVars, sentinelVars, backToBackVars, charsetVars>>
beyondReplay == <<parseVars, negVars, mccpVars, threadVars, mpiVars, xmlVars, roundTripVars, registrationVars, joinVars, streamVars, messageVars, markupVars, gmcpVars, nawsVars, orderVars, linkVars, lifecycleVars, closeVars, sentinelVars, backToBackVars, charsetVars>>
beyondRegistration == <<parseVars, negVars, mccpVars, threadVars, mpiVars, xmlVars, roundTripVars, replayVars, joinVars, streamVars, messageVars, markupVars, gmcpVars, nawsVars, orderVars, linkVars, lifecycleVars, closeVars, sentinelVars, backToBackVars, charsetVars>>
beyondJoin == <<parseVars, negVars, managerVars, mccpVars, threadVars, mpiVars, xmlVars, roundTripVars, replayVars, registrationVars, streamVars, messageVars, markupVars, gmcpVars, nawsVars, orderVars, linkVars, lifecycleVars, closeVars, sentinelVars, backToBackVars, charsetVars>>
beyondStream == <<parseVars, negVars, managerVars, threadVars, mpiVars, xmlVars, roundTripVars, replayVars, registrationVars, joinVars, messageVars, markupVars, gmcpVars, nawsVars, orderVars, linkVars, lifecycleVars, closeVars, sentinelVars, backToBackVars, charsetVars>>
beyondMessage == <<parseVars, negVars, managerVars, mccpVars, threadVars, xmlVars, roundTripVars, replayVars, registrationVars, joinVars, streamVars, markupVars, gmcpVars, nawsVars, orderVars, linkVars, lifecycleVars, closeVars, sentinelVars, backToBackVars, charsetVars>>
beyondMarkup == <<parseVars, negVars, managerVars, mccpVars, threadVars, mpiVars, roundTripVars, replayVars, registrationVars, joinVars, streamVars, messageVars, gmcpVars, nawsVars, orderVars, linkVars, lifecycleVars, closeVars, sentinelVars, backToBackVars, charsetVars>>
beyondGMCP == <<parseVars, negVars, managerVars, mccpVars, threadVars, mpiVars, xmlVars, roundTripVars, replayVars, registrationVars, joinVars, streamVars, messageVars, markupVars, nawsVars, orderVars, linkVars, lifecycleVars, closeVars, sentinelVars, backToBackVars, charsetVars>>
beyondNAWS == <<parseVars, negVars, managerVars, mccpVars, threadVars, mpiVars, xmlVars, roundTripVars, replayVars, registrationVars, joinVars, streamVars, messageVars, markupVars, gmcpVars, orderVars, linkVars, lifecycleVars, closeVars, sentinelVars, backToBackVars, charsetVars>>
beyondOrder == <<parseVars, negVars, managerVars, mccpVars, threadVars, mpiVars, xmlVars, roundTripVars, replayVars, registrationVars, joinVars, streamVars, messageVars, markupVars, gmcpVars, nawsVars, linkVars, lifecycleVars, closeVars, sentinelVars, backToBackVars, charsetVars>>
beyondLink == <<parseVars, negVars, managerVars, mccpVars, threadVars, mpiVars, xmlVars, roundTripVars, replayVars, registrationVars, joinVars, streamVars, messageVars, markupVars, gmcpVars, nawsVars, orderVars, lifecycleVars, closeVars, sentinelVars, backToBackVars, charsetVars>>
beyondLifecycle == <<parseVars, negVars, mccpVars, threadVars, mpiVars, xmlVars, roundTripVars, replayVars, registrationVars, joinVars, streamVars, messageVars, markupVars, gmcpVars, nawsVars, orderVars, linkVars, closeVars, sentinelVars, backToBackVars, charsetVars>>
beyondClose == <<parseVars, negVars, mccpVars, mpiVars, xmlVars, roundTripVars, replayVars, registrationVars, joinVars, streamVars, messageVars, markupVars, gmcpVars, nawsVars, orderVars, linkVars, lifecycleVars, sentinelVars, backToBackVars, charsetVars>>
beyondSentinel == <<parseVars, negVars, managerVars, threadVars, mpiVars, xmlVars, roundTripVars, replayVars, registrationVars, joinVars, streamVars, messageVars, markupVars, gmcpVars, nawsVars, orderVars, linkVars, lifecycleVars, closeVars, backToBackVars, charsetVars>>
beyondBackToBack == <<parseVars, negVars, managerVars, mccpVars, threadVars, xmlVars, roundTripVars, replayVars, registrationVars, joinVars, streamVars, messageVars, markupVars, gmcpVars, nawsVars, orderVars, linkVars, lifecycleVars, closeVars, sentinelVars, charsetVars>>
beyondCharset == <<parseVars, negVars, managerVars, mccpVars, threadVars, mpiVars, xmlVars, roundTripVars, replayVars, registrationVars, joinVars, streamVars, messageVars, markupVars, gmcpVars, nawsVars, orderVars, linkVars, lifecycleVars, closeVars, sentinelVars, backToBackVars>>

-----------------------------------------------------------------------------
(* telnet_constants.py *)
NULL == 0
LF == 10
CR == 13
SE == 240
NOP == 241
GA == 249
SB == 250
WILL == 251
WONT == 252
DO == 253
DONT == 254
IAC == 255
ECHO == 1
NAWS == 31
GMCP == 201
MCCP1 == 85
MCCP2 == 86
COMMAND_BYTES == (236..239) \cup (241..249)
NEGOTIATION_BYTES == {WILL, WONT, DO, DONT}
\* on_command(byte, None): the option of a one-byte command
None == -1

-----------------------------------------------------------------------------
(* bytes methods of the Python runtime, as the handlers use them *)

\* data.find(b) + 1: the 1-based index of the first b in data, 0 when absent
RECURSIVE FindFrom(_, _, _)
FindFrom(data, b, i) ==
    IF i > Len(data) THEN 0
    ELSE IF data[i] = b THEN i
    ELSE FindFrom(data, b, i + 1)

Find(data, b) == FindFrom(data, b, 1)

\* data[i:] with a 1-based i
Tail_from(data, i) == SubSeq(data, i, Len(data))

\* data.partition(sep) for a one-byte sep
Partition(data, sep) ==
    LET i == Find(data, sep) IN
    IF i = 0 THEN [head |-> data, separator |-> FALSE, tail |-> <<>>]
    ELSE [head |-> SubSeq(data, 1, i - 1), separator |-> TRUE, tail |-> Tail_from(data, i + 1)]

\* data.startswith(prefix)
StartsWith(data, prefix) ==
    /\ Len(prefix) <= Len(data)
    /\ SubSeq(data, 1, Len(prefix)) = prefix

\* data.endswith(b) for a one-byte b
EndsWith(data, b) == Len(data) > 0 /\ data[Len(data)] = b

\* data.replace(old, new): left to right, non-overlapping, old non-empty
RECURSIVE Replace(_, _, _)
Replace(data, old, new) ==
    IF Len(data) = 0 THEN <<>>
    ELSE IF StartsWith(data, old) THEN new \o Replace(Tail_from(data, Len(old) + 1), old, new)
    ELSE <<data[1]>> \o Replace(Tail_from(data, 2), old, new)

-----------------------------------------------------------------------------
(* telnet.py: the byte parser of TelnetProtocol.  A handler is a record of  *)
(* its fields; out is what it has passed on so far: the application bytes   *)
(* given to the receiver and the on_command and on_subnegotiation calls.    *)

\* an escape_iac that leaves IAC bytes single
escape_iac_leaves_iac(data) == data

escape_iac(data) == Replace(data, <<IAC>>, <<IAC, IAC>>)

TelnetProtocol_init ==
    [state |-> "DATA",
     app_data_buffer |-> <<>>,
     received_command_byte |-> <<>>,
     received_subnegotiation_bytes |-> <<>>,
     out |-> <<>>]

AppEvent(d) == [t |-> "app", c |-> None, o |-> None, d |-> d]
CommandEvent(c, o) == [t |-> "command", c |-> c, o |-> o, d |-> <<>>]
SubnegotiationEvent(o, d) == [t |-> "subnegotiation", c |-> None, o |-> o, d |-> d]

flush_app_data(p) ==
    IF p.app_data_buffer # <<>>
    THEN [p EXCEPT !.out = Append(@, AppEvent(p.app_data_buffer)), !.app_data_buffer = <<>>]
    ELSE p

\* returns the handler and the data left to process
process_data_state(p, data) ==
    LET part == Partition(data, IAC)
        newline == ~part.separator /\ EndsWith(part.head, CR)
        app_data == IF newline THEN SubSeq(part.head, 1, Len(part.head) - 1) ELSE part.head
        state == IF part.separator THEN "COMMAND"
                 ELSE IF newline THEN "NEWLINE"
                 ELSE p.state
    IN [p |-> [p EXCEPT !.state = state,
                        !.app_data_buffer =
                            @ \o Replace(Replace(app_data, <<CR, LF>>, <<LF>>), <<CR, NULL>>, <<CR>>)],
        data |-> part.tail]

process_command_state(p, byte) ==
    IF byte = IAC
    THEN [p EXCEPT !.app_data_buffer = Append(@, byte), !.state = "DATA"]
    ELSE IF byte = SE
    THEN [p EXCEPT !.state = "DATA"]
    ELSE IF byte = SB
    THEN [p EXCEPT !.state = "SUBNEGOTIATION", !.received_subnegotiation_bytes = <<>>]
    ELSE IF byte \in COMMAND_BYTES
    THEN LET q == flush_app_data([p EXCEPT !.state = "DATA"])
         IN [q EXCEPT !.out = Append(@, CommandEvent(byte, None))]
    ELSE IF byte \in NEGOTIATION_BYTES
    THEN [p EXCEPT !.state = "NEGOTIATION", !.received_command_byte = <<byte>>]
    ELSE [p EXCEPT !.state = "DATA"]

\* process_negotiation_state that flushes after the callback
process_negotiation_state_flushes_late(p, byte) ==
    flush_app_data([p EXCEPT !.state = "DATA", !.received_command_byte = <<>>,
                             !.out = Append(@, CommandEvent(p.received_command_byte[1], byte))])

process_negotiation_state(p, byte) ==
    LET command == p.received_command_byte[1]
        q == flush_app_data([p EXCEPT !.state = "DATA", !.received_command_byte = <<>>])
    IN [q EXCEPT !.out = Append(@, CommandEvent(command, byte))]

process_newline_state(p, byte) ==
    IF byte = LF
    THEN [p EXCEPT !.state = "DATA", !.app_data_buffer = Append(@, byte)]
    ELSE IF byte = NULL
    THEN [p EXCEPT !.state = "DATA", !.app_data_buffer = Append(@, CR)]
    ELSE IF byte = IAC
    THEN [p EXCEPT !.state = "COMMAND", !.app_data_buffer = Append(@, CR)]
    ELSE [p EXCEPT !.state = "DATA", !.app_data_buffer = @ \o <<CR, byte>>]

process_subnegotiation_state(p, byte) ==
    IF byte = IAC
    THEN [p EXCEPT !.state = "SUBNEGOTIATION_ESCAPED"]
    ELSE [p EXCEPT !.received_subnegotiation_bytes = Append(@, byte)]

process_subnegotiation_escaped_state(p, byte) ==
    IF byte = SE
    THEN LET commands == p.received_subnegotiation_bytes
             q == flush_app_data([p EXCEPT !.state = "DATA",
                                           !.received_subnegotiation_bytes = <<>>])
         IN IF commands = <<>>
            THEN q
            ELSE [q EXCEPT !.out =
                     Append(@, SubnegotiationEvent(commands[1], Tail_from(commands, 2)))]
    ELSE [p EXCEPT !.state = "SUBNEGOTIATION",
                   !.received_subnegotiation_bytes = Append(@, byte)]

\* the while loop of on_data_received
RECURSIVE Telnet_loop(_, _)
Telnet_loop(p, data) ==
    IF data = <<>> THEN p
    ELSE IF p.state = "DATA"
    THEN LET r == process_data_state(p, data) IN Telnet_loop(r.p, r.data)
    ELSE LET byte == data[1]
             rest == Tail_from(data, 2)
             q == CASE p.state = "COMMAND" -> process_command_state(p, byte)
                    [] p.state = "NEGOTIATION" -> process_negotiation_state(p, byte)
                    [] p.state = "NEWLINE" -> process_newline_state(p, byte)
                    [] p.state = "SUBNEGOTIATION" -> process_subnegotiation_state(p, byte)
                    [] p.state = "SUBNEGOTIATION_ESCAPED" ->
                           process_subnegotiation_escaped_state(p, byte)
         IN Telnet_loop(q, rest)

Telnet_on_data_received(p, data) == flush_app_data(Telnet_loop(p, data))

-----------------------------------------------------------------------------
(* telnet.py: option negotiation.  will, wont, do and dont and the four     *)
(* command handlers work on the OptionState s of their option and return    *)
(* the new state, the bytes written to the peer, the callbacks invoked (in  *)
(* order) and the exception raised, if any.                                 *)

OptionPerspective == [enabled |-> FALSE, negotiating |-> FALSE]
OptionState == [us |-> OptionPerspective, him |-> OptionPerspective]

Result(s, written, calls, raised) ==
    [s |-> s, written |-> written, calls |-> calls, raised |-> raised]

\* will that only looks at its own perspective's negotiation
will_ignores_peer_negotiation(s, option) ==
    IF s.us.negotiating THEN Result(s, <<>>, <<>>, "")
    ELSE IF s.us.enabled THEN Result(s, <<>>, <<>>, "")
    ELSE Result([s EXCEPT !.us.negotiating = TRUE], <<IAC, WILL, option>>, <<>>, "")

will(s, option) ==
    IF s.us.negotiating \/ s.him.negotiating THEN Result(s, <<>>, <<>>, "")
    ELSE IF s.us.enabled THEN Result(s, <<>>, <<>>, "")
    ELSE Result([s EXCEPT !.us.negotiating = TRUE], <<IAC, WILL, option>>, <<>>, "")

wont(s, option) ==
    IF s.us.negotiating \/ s.him.negotiating THEN Result(s, <<>>, <<>>, "")
    ELSE IF ~s.us.enabled THEN Result(s, <<>>, <<>>, "")
    ELSE Result([s EXCEPT !.us.negotiating = TRUE], <<IAC, WONT, option>>, <<>>, "")

do(s, option) ==
    IF s.us.negotiating \/ s.him.negotiating THEN Result(s, <<>>, <<>>, "")
    ELSE IF s.him.enabled THEN Result(s, <<>>, <<>>, "")
    ELSE Result([s EXCEPT !.him.negotiating = TRUE], <<IAC, DO, option>>, <<>>, "")

dont(s, option) ==
    IF s.us.negotiating \/ s.him.negotiating THEN Result(s, <<>>, <<>>, "")
    ELSE IF ~s.him.enabled THEN Result(s, <<>>, <<>>, "")
    ELSE Result([s EXCEPT !.him.negotiating = TRUE], <<IAC, DONT, option>>, <<>>, "")

\* on_will that refuses an offer without a reply
on_will_refuses_silently(s, option, accept) ==
    IF ~s.him.enabled /\ ~s.him.negotiating
    THEN IF accept
         THEN Result([s EXCEPT !.him.enabled = TRUE], <<IAC, DO, option>>,
                     <<"on_enable_remote", "on_option_enabled">>, "")
         ELSE Result(s, <<>>, <<"on_enable_remote">>, "")
    ELSE IF ~s.him.enabled /\ s.him.negotiating
    THEN LET t == [s EXCEPT !.him.enabled = TRUE, !.him.negotiating = FALSE]
         IN IF accept
            THEN Result(t, <<>>, <<"on_enable_remote", "on_option_enabled">>, "")
            ELSE Result(t, <<>>, <<"on_enable_remote">>, "AssertionError")
    ELSE IF s.him.enabled /\ ~s.him.negotiating
    THEN Result(s, <<>>, <<>>, "")
    ELSE Result(s, <<>>, <<>>, "AssertionError")

\* accept is what the policy callback on_enable_remote returns
on_will(s, option, accept) ==
    IF ~s.him.enabled /\ ~s.him.negotiating
    THEN IF accept
         THEN Result([s EXCEPT !.him.enabled = TRUE], <<IAC, DO, option>>,
                     <<"on_enable_remote", "on_option_enabled">>, "")
         ELSE Result(s, <<IAC, DONT, option>>, <<"on_enable_remote">>, "")
    ELSE IF ~s.him.enabled /\ s.him.negotiating
    THEN LET t == [s EXCEPT !.him.enabled = TRUE, !.him.negotiating = FALSE]
         IN IF accept
            THEN Result(t, <<>>, <<"on_enable_remote", "on_option_enabled">>, "")
            ELSE Result(t, <<>>, <<"on_enable_remote">>, "AssertionError")
    ELSE IF s.him.enabled /\ ~s.him.negotiating
    THEN Result(s, <<>>, <<>>, "")
    ELSE Result(s, <<>>, <<>>, "AssertionError")

\* on_wont that answers the peer's agreement to disable with IAC DONT
on_wont_answers_agreement(s, option) ==
    IF ~s.him.enabled /\ ~s.him.negotiating
    THEN Result(s, <<>>, <<>>, "")
    ELSE IF ~s.him.enabled /\ s.him.negotiating
    THEN Result([s EXCEPT !.him.negotiating = FALSE], <<>>, <<>>, "")
    ELSE IF s.him.enabled /\ ~s.him.negotiating
    THEN Result([s EXCEPT !.him.enabled = FALSE], <<IAC, DONT, option>>,
                <<"on_disable_remote">>, "")
    ELSE Result([s EXCEPT !.him.enabled = FALSE, !.him.negotiating = FALSE],
                <<IAC, DONT, option>>, <<"on_disable_remote">>, "")

on_wont(s, option) ==
    IF ~s.him.enabled /\ ~s.him.negotiating
    THEN Result(s, <<>>, <<>>, "")
    ELSE IF ~s.him.enabled /\ s.him.negotiating
    THEN Result([s EXCEPT !.him.negotiating = FALSE], <<>>, <<>>, "")
    ELSE IF s.him.enabled /\ ~s.him.negotiating
    THEN Result([s EXCEPT !.him.enabled = FALSE], <<IAC, DONT, option>>,
                <<"on_disable_remote">>, "")
    ELSE Result([s EXCEPT !.him.enabled = FALSE, !.him.negotiating = FALSE], <<>>,
                <<"on_disable_remote">>, "")

\* on_do that forgets to clear us.negotiating when the peer agrees
on_do_keeps_negotiating(s, option, accept) ==
    IF ~s.us.enabled /\ ~s.us.negotiating
    THEN IF accept
         THEN Result([s EXCEPT !.us.enabled = TRUE], <<IAC, WILL, option>>,
                     <<"on_enable_local", "on_option_enabled">>, "")
         ELSE Result(s, <<IAC, WONT, option>>, <<"on_enable_local">>, "")
    ELSE IF ~s.us.enabled /\ s.us.negotiating
    THEN Result([s EXCEPT !.us.enabled = TRUE], <<>>,
                <<"on_enable_local", "on_option_enabled">>, "")
    ELSE IF s.us.enabled /\ ~s.us.negotiating
    THEN Result(s, <<>>, <<>>, "")
    ELSE Result(s, <<>>, <<>>, "AssertionError")

\* on_do that answers the peer's agreement with another IAC WILL
on_do_replies_again(s, option, accept) ==
    IF ~s.us.enabled /\ ~s.us.negotiating
    THEN IF accept
         THEN Result([s EXCEPT !.us.enabled = TRUE], <<IAC, WILL, option>>,
                     <<"on_enable_local", "on_option_enabled">>, "")
         ELSE Result(s, <<IAC, WONT, option>>, <<"on_enable_local">>, "")
    ELSE IF ~s.us.enabled /\ s.us.negotiating
    THEN Result([s EXCEPT !.us.enabled = TRUE, !.us.negotiating = FALSE],
                <<IAC, WILL, option>>, <<"on_enable_local", "on_option_enabled">>, "")
    ELSE IF s.us.enabled /\ ~s.us.negotiating
    THEN Result(s, <<>>, <<>>, "")
    ELSE Result(s, <<>>, <<>>, "AssertionError")

\* accept is what the policy callback on_enable_local returns
on_do(s, option, accept) ==
    IF ~s.us.enabled /\ ~s.us.negotiating
    THEN IF accept
         THEN Result([s EXCEPT !.us.enabled = TRUE], <<IAC, WILL, option>>,
                     <<"on_enable_local", "on_option_enabled">>, "")
         ELSE Result(s, <<IAC, WONT, option>>, <<"on_enable_local">>, "")
    ELSE IF ~s.us.enabled /\ s.us.negotiating
    THEN Result([s EXCEPT !.us.enabled = TRUE, !.us.negotiating = FALSE], <<>>,
                <<"on_enable_local", "on_option_enabled">>, "")
    ELSE IF s.us.enabled /\ ~s.us.negotiating
    THEN Result(s, <<>>, <<>>, "")
    ELSE Result(s, <<>>, <<>>, "AssertionError")

\* on_dont that answers an unrequested IAC DONT but leaves the option enabled
on_dont_stays_enabled(s, option) ==
    IF ~s.us.enabled /\ ~s.us.negotiating
    THEN Result(s, <<>>, <<>>, "")
    ELSE IF ~s.us.enabled /\ s.us.negotiating
    THEN Result([s EXCEPT !.us.negotiating = FALSE], <<>>, <<>>, "")
    ELSE IF s.us.enabled /\ ~s.us.negotiating
    THEN Result(s, <<IAC, WONT, option>>, <<"on_disable_local">>, "")
    ELSE Result([s EXCEPT !.us.enabled = FALSE, !.us.negotiating = FALSE], <<>>,
                <<"on_disable_local">>, "")

on_dont(s, option) ==
    IF ~s.us.enabled /\ ~s.us.negotiating
    THEN Result(s, <<>>, <<>>, "")
    ELSE IF ~s.us.enabled /\ s.us.negotiating
    THEN Result([s EXCEPT !.us.negotiating = FALSE], <<>>, <<>>, "")
    ELSE IF s.us.enabled /\ ~s.us.negotiating
    THEN Result([s EXCEPT !.us.enabled = FALSE], <<IAC, WONT, option>>,
                <<"on_disable_local">>, "")
    ELSE Result([s EXCEPT !.us.enabled = FALSE, !.us.negotiating = FALSE], <<>>,
                <<"on_disable_local">>, "")

\* on_command: the command_map of TelnetProtocol
on_command(s, command, option, accept) ==
    CASE command = WILL -> on_will(s, option, accept)
      [] command = WONT -> on_wont(s, option)
      [] command = DO -> on_do(s, option, accept)
      [] command = DONT -> on_dont(s, option)
      [] OTHER -> Result(s, <<>>, <<"on_unhandled_command">>, "")

-----------------------------------------------------------------------------
(* SpecNeg: local will/wont/do/dont calls and received negotiation commands *)
(* on the options of NegOptions, with policy callbacks that may accept or   *)
(* refuse.  log keeps the last two steps: what was called, the option's     *)
(* state before it, what the policy callback answered when the step asked   *)
(* it, and what the call wrote, invoked and raised.                         *)

NegOptions == {ECHO, NAWS}

NegStart ==
    /\ option_states = [o \in NegOptions |-> OptionState]
    /\ log = <<>>

\* what the policy callback returned to a step that called it
Answer(r, accept) ==
    IF \E i \in 1..Len(r.calls) : r.calls[i] \in {"on_enable_remote", "on_enable_local"}
    THEN (IF accept THEN "True" ELSE "False")
    ELSE "not asked"

Step(kind, option, r, accept) ==
    [kind |-> kind, option |-> option, pre |-> option_states[option],
     answer |-> Answer(r, accept),
     written |-> r.written, calls |-> r.calls, raised |-> r.raised]

Record(kind, option, r, accept) ==
    /\ option_states' = [option_states EXCEPT ![option] = r.s]
    /\ log' = IF log = <<>> THEN <<Step(kind, option, r, accept)>>
              ELSE <<log[Len(log)], Step(kind, option, r, accept)>>
    /\ UNCHANGED beyondNeg

CallWill(o) == Record("will", o, will(option_states[o], o), FALSE)
CallWont(o) == Record("wont", o, wont(option_states[o], o), FALSE)
CallDo(o) == Record("do", o, do(option_states[o], o), FALSE)
CallDont(o) == Record("dont", o, dont(option_states[o], o), FALSE)

CommandName(command) ==
    CASE command = WILL -> "WILL" [] command = WONT -> "WONT"
      [] command = DO -> "DO" [] command = DONT -> "DONT"

ReceiveCommand(command, o, accept) ==
    Record(CommandName(command), o, on_command(option_states[o], command, o, accept), accept)

NegNext ==
    \/ \E o \in NegOptions : CallWill(o)
    \/ \E o \in NegOptions : CallWont(o)
    \/ \E o \in NegOptions : CallDo(o)
    \/ \E o \in NegOptions : CallDont(o)
    \/ \E c \in NEGOTIATION_BYTES, o \in NegOptions, accept \in BOOLEAN :
           ReceiveCommand(c, o, accept)

Last == log[Len(log)]
Both(perspective) == perspective.enabled /\ perspective.negotiating
Count(calls, name) == Cardinality({i \in 1..Len(calls) : calls[i] = name})

-----------------------------------------------------------------------------
(* manager.py: the Manager and its handler chain.  Handler instances are    *)
(* numbered 1, 2, ... in the order register constructs them; a _receiver    *)
(* is AppReceiver (the receiver given to the Manager) or the number of the  *)
(* instance whose on_data_received it is.  The handlers are plain           *)
(* ConnectionInterface subclasses: on_data_received passes the data to      *)
(* _receiver, write passes it to Manager.write.                             *)

MaxInstances == 3
MaxTraffic == 1
AppReceiver == 0
NoClass == 0
HandlerClasses == {1, 2, 3}
Instances == 1..MaxInstances
ManagerData == {<<IAC, LF>>}
prompt_terminator == <<IAC, GA>>

\* what register or unregister was called with
NoHandler == [kind |-> "none", id |-> 0]
AClass(class) == [kind |-> "class", id |-> class]
AnInstance(instance) == [kind |-> "instance", id |-> instance]

ManagerStart ==
    /\ is_connected = FALSE
    /\ read_buffer = <<>>
    /\ write_buffer = <<>>
    /\ handlers = <<>>
    /\ receiver = [i \in Instances |-> AppReceiver]
    /\ handler_class = [i \in Instances |-> NoClass]
    /\ sent = <<>>
    /\ delivered = <<>>
    /\ lost = <<>>
    /\ made = <<>>
    /\ last_call = [op |-> "init", index |-> 0, raised |-> ""]

Constructed == {i \in Instances : handler_class[i] # NoClass}
Traffic == Len(sent) + Len(delivered) + Len(read_buffer) + Len(write_buffer)

\* lst.index(x) for an x that is in lst
IndexIn(lst, x) == CHOOSE i \in 1..Len(lst) : lst[i] = x

\* lst.remove(x), by index
RemoveAt(lst, i) == SubSeq(lst, 1, i - 1) \o SubSeq(lst, i + 1, Len(lst))

\* ConnectionInterface.on_data_received along the _receiver wires: where data
\* given to instance i ends up (the application receiver, or nowhere)
RECURSIVE Route(_, _, _)
Route(rcv, i, fuel) ==
    IF i = AppReceiver THEN TRUE
    ELSE IF fuel = 0 THEN FALSE
    ELSE Route(rcv, rcv[i], fuel - 1)

\* Manager.write after the escape and prompt arguments were applied: the new
\* write buffer and the data given to the transport writer (<<>>: no call)
write(connected, chain, buffer, data) ==
    IF ~connected \/ chain = <<>>
    THEN [write_buffer |-> buffer \o data, written |-> <<>>]
    ELSE [write_buffer |-> <<>>, written |-> buffer \o data]

\* the escape argument applied without the CR NUL replacement
Escaped_keeps_cr(data, escape, prompt) ==
    LET d == IF escape
             THEN Replace(escape_iac(data), <<LF>>, <<CR, LF>>)
             ELSE data
    IN IF prompt THEN d \o prompt_terminator ELSE d

Escaped(data, escape, prompt) ==
    LET d == IF escape
             THEN Replace(Replace(escape_iac(data), <<CR>>, <<CR, NULL>>), <<LF>>, <<CR, LF>>)
             ELSE data
    IN IF prompt THEN d \o prompt_terminator ELSE d

Emit(log_, data) == IF data = <<>> THEN log_ ELSE Append(log_, data)

\* Manager.parse: the new read buffer and the data given to handlers[0]
parse(connected, chain, buffer, data) ==
    IF ~connected \/ chain = <<>>
    THEN [read_buffer |-> buffer \o data, received |-> <<>>]
    ELSE [read_buffer |-> <<>>, received |-> buffer \o data]

\* unregister that removes the instance and leaves its predecessor's wire alone
unregister_no_rewire(rcv, chain, index) == rcv

\* the _receiver wires after unregister removed the instance at index
unregister_rewire(rcv, chain, index) ==
    LET rest == RemoveAt(chain, index) IN
    IF rest # <<>> /\ index > 1
    THEN [rcv EXCEPT ![chain[index - 1]] = rcv[chain[index]]]
    ELSE rcv

\* the _receiver wires after register appended a new instance
register_wire(rcv, chain, instance) ==
    LET fresh == [rcv EXCEPT ![instance] = AppReceiver] IN
    IF chain # <<>>
    THEN [fresh EXCEPT ![chain[Len(chain)]] = instance]
    ELSE fresh

Write(data, escape, prompt) ==
    /\ Traffic < MaxTraffic
    /\ LET w == write(is_connected, handlers, write_buffer, Escaped(data, escape, prompt)) IN
        /\ write_buffer' = w.write_buffer
        /\ sent' = Emit(sent, w.written)
    /\ UNCHANGED <<is_connected, read_buffer, handlers, receiver, handler_class,
                   delivered, lost, made, last_call>>
    /\ UNCHANGED beyondManager

Parse(data) ==
    /\ Traffic < MaxTraffic
    /\ LET r == parse(is_connected, handlers, read_buffer, data) IN
        /\ read_buffer' = r.read_buffer
        /\ delivered' = IF r.received # <<>> /\ Route(receiver, handlers[1], MaxInstances + 1)
                        THEN Append(delivered, r.received)
                        ELSE delivered
    /\ UNCHANGED <<is_connected, write_buffer, handlers, receiver, handler_class,
                   sent, lost, made, last_call>>
    /\ UNCHANGED beyondManager

connect ==
    /\ IF ~is_connected
       THEN LET r == parse(TRUE, handlers, <<>>, read_buffer)
                w == write(TRUE, handlers, <<>>, write_buffer)
            IN /\ is_connected' = TRUE
               /\ read_buffer' = r.read_buffer
               /\ delivered' =
                      IF r.received # <<>> /\ Route(receiver, handlers[1], MaxInstances + 1)
                      THEN Append(delivered, r.received)
                      ELSE delivered
               /\ write_buffer' = w.write_buffer
               /\ sent' = Emit(sent, w.written)
       ELSE UNCHANGED <<is_connected, read_buffer, delivered, write_buffer, sent>>
    /\ UNCHANGED <<handlers, receiver, handler_class, lost, made, last_call>>

Connect ==
    /\ connect
    /\ UNCHANGED beyondManager

\* a register that builds, appends and starts the instance before it finds
\* the class registered already
register_appends_duplicate(class) ==
    /\ Cardinality(Constructed) < MaxInstances
    /\ LET instance == Cardinality(Constructed) + 1 IN
        /\ handler_class' = [handler_class EXCEPT ![instance] = class]
        /\ receiver' = register_wire(receiver, handlers, instance)
        /\ handlers' = Append(handlers, instance)
        /\ made' = Append(made, instance)
        /\ last_call' = [op |-> "register", index |-> Len(handlers) + 1,
                         raised |-> IF \E i \in 1..Len(handlers) :
                                          handler_class[handlers[i]] = class
                                    THEN "ValueError" ELSE ""]
    /\ UNCHANGED <<is_connected, read_buffer, write_buffer, sent, delivered, lost>>

\* Manager.register(handler), handler being a class
register(class) ==
    /\ Cardinality(Constructed) < MaxInstances
    /\ IF \E i \in 1..Len(handlers) : handler_class[handlers[i]] = class
       THEN /\ last_call' = [op |-> "register", index |-> 0, raised |-> "ValueError"]
            /\ UNCHANGED <<handler_class, receiver, handlers, made>>
       ELSE LET instance == Cardinality(Constructed) + 1 IN
            /\ handler_class' = [handler_class EXCEPT ![instance] = class]
            /\ receiver' = register_wire(receiver, handlers, instance)
            /\ handlers' = Append(handlers, instance)
            /\ made' = Append(made, instance)
            /\ last_call' = [op |-> "register", index |-> Len(handlers) + 1, raised |-> ""]
    /\ UNCHANGED <<is_connected, read_buffer, write_buffer, sent, delivered, lost>>

Register(class) ==
    /\ register(class)
    /\ UNCHANGED beyondManager

\* Manager.unregister(instance), instance being an instance
unregister(instance) ==
    /\ instance \in Constructed
    /\ IF \E i \in 1..Len(handlers) : handlers[i] = instance
       THEN LET index == IndexIn(handlers, instance) IN
            /\ handlers' = RemoveAt(handlers, index)
            /\ receiver' = unregister_rewire(receiver, handlers, index)
            /\ lost' = Append(lost, instance)
            /\ last_call' = [op |-> "unregister", index |-> index, raised |-> ""]
       ELSE /\ last_call' = [op |-> "unregister", index |-> 0, raised |-> "ValueError"]
            /\ UNCHANGED <<handlers, receiver, lost>>
    /\ UNCHANGED <<is_connected, read_buffer, write_buffer, handler_class, sent, delivered,
                   made>>

Unregister(instance) ==
    /\ unregister(instance)
    /\ UNCHANGED beyondManager

\* disconnect: while self._handlers: self.unregister(self._handlers[0])
disconnect ==
    /\ IF is_connected
       THEN /\ lost' = lost \o handlers
            /\ handlers' = <<>>
            /\ is_connected' = FALSE
       ELSE UNCHANGED <<lost, handlers, is_connected>>
    /\ UNCHANGED <<read_buffer, write_buffer, receiver, handler_class, sent, delivered,
                   made, last_call>>

Disconnect ==
    /\ disconnect
    /\ UNCHANGED beyondManager

\* Write is called plainly or with escape and prompt both set
ManagerNext ==
    \/ \E data \in ManagerData, flags \in BOOLEAN : Write(data, flags, flags)
    \/ \E data \in ManagerData : Parse(data)
    \/ Connect
    \/ \E class \in HandlerClasses : Register(class)
    \/ \E instance \in Instances : Unregister(instance)
    \/ Disconnect

-----------------------------------------------------------------------------
(* What an observer of a handler sees: the application bytes, concatenated, *)
(* and the on_command / on_subnegotiation calls in order.                   *)

RECURSIVE AppBytes(_)
AppBytes(out) ==
    IF out = <<>> THEN <<>>
    ELSE IF out[1].t = "app" THEN out[1].d \o AppBytes(Tail(out))
    ELSE AppBytes(Tail(out))

RECURSIVE Dispatches(_)
Dispatches(out) ==
    IF out = <<>> THEN <<>>
    ELSE IF out[1].t # "app" THEN <<out[1]>> \o Dispatches(Tail(out))
    ELSE Dispatches(Tail(out))

-----------------------------------------------------------------------------
(* SpecParse: a byte sequence is chosen byte by byte; pOne receives each    *)
(* byte in a call of its own, pAll receives the sequence in one call.       *)

MaxInput == 4
ParseBytes == {65, NULL, LF, CR, IAC, SB, SE, WILL, NOP}

ParseStart ==
    /\ input = <<>>
    /\ pOne = TelnetProtocol_init
    /\ pAll = TelnetProtocol_init
    /\ phase = "feeding"


FeedByte(b) ==
    /\ phase = "feeding"
    /\ Len(input) < MaxInput
    /\ input' = Append(input, b)
    /\ pOne' = Telnet_on_data_received(pOne, <<b>>)
    /\ UNCHANGED <<pAll, phase>>
    /\ UNCHANGED beyondParse

FeedWhole ==
    /\ phase = "feeding"
    /\ input # <<>>
    /\ pAll' = Telnet_on_data_received(pAll, input)
    /\ phase' = "done"
    /\ UNCHANGED <<input, pOne>>
    /\ UNCHANGED beyondParse

ParseNext ==
    \/ \E b \in ParseBytes : FeedByte(b)
    \/ FeedWhole

-----------------------------------------------------------------------------
(* mccp.py: MCCPMixIn over TelnetProtocol.  A handler is a record m of its  *)
(* fields.  zlib is modelled by its interface: the compressed form of the   *)
(* byte b is the unit Deflated(b) and StreamEnd ends a compressed stream; a *)
(* decompressobj turns units back into bytes, collects what follows         *)
(* StreamEnd in unused_data, and raises zlib.error on anything else.        *)

IAC_SB == <<IAC, SB>>
MCCP_ENABLED_RESPONSES == {<<IAC, SB, MCCP1, WILL, SE>>, <<IAC, SB, MCCP2, IAC, SE>>}
MCCPOptions == {MCCP1, MCCP2}

Deflated(b) == 256 + b
StreamEnd == 512

\* self._decompressor = None, and zlib.decompressobj(zlib.MAX_WBITS)
NoDecompressor == [state |-> "None", unused_data |-> <<>>]
decompressobj == [state |-> "live", unused_data |-> <<>>]

\* Decompress.decompress(data): the object after the call, the bytes it
\* returns, and whether it raised zlib.error instead
RECURSIVE decompress(_, _)
decompress(z, data) ==
    IF data = <<>> THEN [z |-> z, out |-> <<>>, error |-> FALSE]
    ELSE IF z.state = "error" THEN [z |-> z, out |-> <<>>, error |-> TRUE]
    ELSE IF z.state = "eof"
    THEN [z |-> [z EXCEPT !.unused_data = @ \o data], out |-> <<>>, error |-> FALSE]
    ELSE IF data[1] = StreamEnd THEN decompress([z EXCEPT !.state = "eof"], Tail(data))
    ELSE IF data[1] > 255
    THEN LET r == decompress(z, Tail(data)) IN [r EXCEPT !.out = <<data[1] - 256>> \o @]
    ELSE [z |-> [z EXCEPT !.state = "error"], out |-> <<>>, error |-> TRUE]

MCCPMixIn_init ==
    [compression_enabled |-> FALSE,
     mccp_version |-> None,
     compressed_input_buffer |-> <<>>,
     decompressor |-> NoDecompressor,
     telnet |-> TelnetProtocol_init,
     option_states |-> [o \in MCCPOptions |-> OptionState],
     raised |-> "",
     forwarded |-> <<>>]

disable_mccp(m) ==
    [m EXCEPT !.mccp_version = None,
              !.compression_enabled = FALSE,
              !.decompressor = NoDecompressor]

\* on_enable_remote for an MCCP option: the handler and the answer
on_enable_remote(m, option) ==
    IF m.mccp_version = None
    THEN [m |-> [m EXCEPT !.mccp_version = IF option = MCCP1 THEN 1 ELSE 2], accept |-> TRUE]
    ELSE [m |-> m, accept |-> FALSE]

on_disable_remote(m, option) == disable_mccp(m)

\* what a negotiation command for an MCCP option does to the handler, r being
\* what the Telnet handler of the command did with the mix-in's callbacks
after_command(m, option, r) ==
    LET called(name) == \E i \in 1..Len(r.calls) : r.calls[i] = name
        m1 == [m EXCEPT !.option_states[option] = r.s, !.raised = r.raised]
        m2 == IF called("on_enable_remote") THEN on_enable_remote(m1, option).m ELSE m1
    IN IF called("on_disable_remote") THEN on_disable_remote(m2, option) ELSE m2

\* TelnetProtocol.on_command on the MCCP handler: a negotiation command for
\* an MCCP option runs the Telnet handler with the mix-in's callbacks
\* (on_enable_local is the default, which refuses); nothing else touches the
\* MCCP fields
MCCP_on_command(m, command, option) ==
    IF command \in NEGOTIATION_BYTES /\ option \in MCCPOptions
    THEN after_command(m, option,
                       on_command(m.option_states[option], command, option,
                                  command = WILL /\ on_enable_remote(m, option).accept))
    ELSE m

\* the callbacks of one TelnetProtocol.on_data_received call, in order, up to
\* the first that raises
RECURSIVE MCCP_dispatch(_, _)
MCCP_dispatch(m, out) ==
    IF out = <<>> \/ m.raised # "" THEN m
    ELSE MCCP_dispatch(IF out[1].t = "command"
                       THEN MCCP_on_command(m, out[1].c, out[1].o)
                       ELSE m,
                       Tail(out))

\* the handler m after its Telnet layer became p, passing on p.out
after_telnet(m, p) == MCCP_dispatch([m EXCEPT !.telnet = [p EXCEPT !.out = <<>>]], p.out)

\* super().on_data_received(data); forwarded is the bytes of these calls
super_on_data_received(m, data) ==
    after_telnet([m EXCEPT !.forwarded = @ \o data],
                 Telnet_on_data_received([m.telnet EXCEPT !.out = <<>>], data))

\* del input_buffer[:n] (input_buffer.clear() for the whole length) after a
\* call that returned; m unchanged after a call that raised
trimmed(m, n) ==
    IF m.raised # "" THEN m
    ELSE [m EXCEPT !.compressed_input_buffer = Tail_from(@, n + 1)]

\* one turn of the while loop of MCCPMixIn.on_data_received: the handler after
\* it, and whether the loop goes on (FALSE: return, or an exception)
Turn(m, again) == [m |-> m, again |-> again /\ m.raised = ""]

\* lines 63-76 without line 71: the unused data is not put back
after_decompressed_drops_unused(m) ==
    IF m.raised # "" THEN Turn(m, FALSE)
    ELSE IF m.decompressor = NoDecompressor
    THEN Turn([m EXCEPT !.compressed_input_buffer = <<>>, !.raised = "AttributeError"],
              FALSE)
    ELSE IF m.decompressor.unused_data # <<>>
    THEN Turn(disable_mccp([m EXCEPT
                 !.compressed_input_buffer = <<>>,
                 !.option_states[IF m.mccp_version = 1 THEN MCCP1 ELSE MCCP2].him =
                     OptionPerspective]),
              TRUE)
    ELSE Turn([m EXCEPT !.compressed_input_buffer = <<>>], FALSE)

\* lines 63-76, after super().on_data_received returned or raised
after_decompressed(m) ==
    IF m.raised # "" THEN Turn(m, FALSE)
    ELSE IF m.decompressor = NoDecompressor
    THEN Turn([m EXCEPT !.compressed_input_buffer = <<>>, !.raised = "AttributeError"],
              FALSE)
    ELSE IF m.decompressor.unused_data # <<>>
    THEN Turn(disable_mccp([m EXCEPT
                 !.compressed_input_buffer = m.decompressor.unused_data,
                 !.option_states[IF m.mccp_version = 1 THEN MCCP1 ELSE MCCP2].him =
                     OptionPerspective]),
              TRUE)
    ELSE Turn([m EXCEPT !.compressed_input_buffer = <<>>], FALSE)

\* line 62, z being what decompress did
after_decompress(m, z) ==
    IF z.error THEN Turn([m EXCEPT !.decompressor = z.z, !.raised = "zlib.error"], FALSE)
    ELSE after_decompressed(super_on_data_received([m EXCEPT !.decompressor = z.z], z.out))

\* the turn taken while compression is enabled
compressed_turn(m) ==
    after_decompress(m, decompress(m.decompressor, m.compressed_input_buffer))

\* lines 81-83: the bytes before the first IAC are passed on
before_iac(m, iac_index) ==
    IF iac_index > 1
    THEN trimmed(super_on_data_received(m, SubSeq(m.compressed_input_buffer, 1,
                                                  iac_index - 1)),
                 iac_index - 1)
    ELSE m

\* lines 84-104: the turn goes on with a buffer that starts with IAC
iac_turn(m) ==
    LET buf == m.compressed_input_buffer
        se_index == Find(buf, SE)
    IN IF m.raised # "" \/ buf = <<IAC>> THEN Turn(m, FALSE)
       ELSE IF StartsWith(buf, IAC_SB)
       THEN IF se_index = 0 THEN Turn(m, FALSE)
            ELSE IF \E r \in MCCP_ENABLED_RESPONSES : StartsWith(buf, r)
            THEN Turn(trimmed([m EXCEPT !.compression_enabled = TRUE,
                                        !.decompressor = decompressobj], se_index),
                      TRUE)
            ELSE Turn(trimmed(super_on_data_received(m, SubSeq(buf, 1, se_index)),
                              se_index),
                      TRUE)
       ELSE Turn(trimmed(super_on_data_received(m, SubSeq(buf, 1, 2)), 2), TRUE)

\* the turn taken while compression is not enabled
plain_turn(m) ==
    LET iac_index == Find(m.compressed_input_buffer, IAC) IN
    IF m.mccp_version # None /\ iac_index # 0
    THEN iac_turn(before_iac(m, iac_index))
    ELSE Turn(trimmed(super_on_data_received(m, m.compressed_input_buffer),
                      Len(m.compressed_input_buffer)),
              TRUE)

\* the while loop of MCCPMixIn.on_data_received
RECURSIVE MCCP_loop(_)
next_turn(t) == IF t.again THEN MCCP_loop(t.m) ELSE t.m

MCCP_loop(m) ==
    IF m.compressed_input_buffer = <<>> THEN m
    ELSE next_turn(IF m.compression_enabled THEN compressed_turn(m) ELSE plain_turn(m))

MCCP_on_data_received(m, data) ==
    MCCP_loop([m EXCEPT !.compressed_input_buffer = @ \o data, !.raised = "",
                        !.forwarded = <<>>])

-----------------------------------------------------------------------------
(* SpecMCCP: a peer sends messages of MCCPMessages, at most MaxMessages of  *)
(* them; the transport hands the handler the bytes in arrival order, in     *)
(* chunks that end anywhere.                                                *)

MaxMessages == 3
MCCPMessages ==
    {<<IAC, WILL, MCCP2>>, <<IAC, WILL, MCCP1>>, <<IAC, WONT, MCCP2>>,
     <<IAC, SB, MCCP2, IAC, SE>>, <<IAC, SB, MCCP1, WILL, SE>>,
     <<65>>,
     <<Deflated(65)>>, <<StreamEnd>>,
     <<Deflated(IAC), Deflated(WONT), Deflated(MCCP2)>>}

\* the handler held in the variables
MCCPHandler ==
    [compression_enabled |-> compression_enabled,
     mccp_version |-> mccp_version,
     compressed_input_buffer |-> compressed_input_buffer,
     decompressor |-> decompressor,
     telnet |-> mccp_telnet,
     option_states |-> mccp_option_states,
     raised |-> mccp_raised,
     forwarded |-> <<>>]

MCCPIs(m) ==
    /\ compression_enabled = m.compression_enabled
    /\ mccp_version = m.mccp_version
    /\ compressed_input_buffer = m.compressed_input_buffer
    /\ decompressor = m.decompressor
    /\ mccp_telnet = m.telnet
    /\ mccp_option_states = m.option_states
    /\ mccp_raised = m.raised

MCCPBecomes(m) ==
    /\ compression_enabled' = m.compression_enabled
    /\ mccp_version' = m.mccp_version
    /\ compressed_input_buffer' = m.compressed_input_buffer
    /\ decompressor' = m.decompressor
    /\ mccp_telnet' = m.telnet
    /\ mccp_option_states' = m.option_states
    /\ mccp_raised' = m.raised

MCCPStart ==
    /\ MCCPIs(MCCPMixIn_init)
    /\ wire = <<>>
    /\ peer_sent = 0

PeerSends(message) ==
    /\ peer_sent < MaxMessages
    /\ peer_sent' = peer_sent + 1
    /\ wire' = wire \o message
    /\ UNCHANGED <<compression_enabled, mccp_version, compressed_input_buffer, decompressor,
                   mccp_telnet, mccp_option_states, mccp_raised>>
    /\ UNCHANGED beyondMCCP

Receive(n) ==
    /\ n <= Len(wire)
    /\ MCCPBecomes(MCCP_on_data_received(MCCPHandler, SubSeq(wire, 1, n)))
    /\ wire' = Tail_from(wire, n + 1)
    /\ UNCHANGED peer_sent
    /\ UNCHANGED beyondMCCP

MaxChunk == 8

MCCPNext ==
    \/ \E message \in MCCPMessages : PeerSends(message)
    \/ \E n \in 1..MaxChunk : Receive(n)

-----------------------------------------------------------------------------
(* SpecThreads: the Manager with an MPIProtocol handler, used from the main *)
(* context and from the worker thread that MPIProtocol.on_command starts    *)
(* for an edit message.  Manager.write and Manager.connect run line by      *)
(* line: pc[t] is the line of manager.py that thread t executes next, and   *)
(* the other thread may run between any two lines.  register and parse run  *)
(* in the main context only and touch nothing the worker reads between its  *)
(* lines except where shown.  Data is counted in whole messages: a message  *)
(* is a number, a byte string a sequence of them.                          *)

MaxMainWrites == 2
MPIIdentify == 1
MPIReply == 2
MainData(k) == 2 + k
EditRequest == 69
MPIProtocol == 1
Threads == {"main", "worker"}

ThreadsStart ==
    /\ pc = [t \in Threads |-> IF t = "main" THEN "idle" ELSE "unborn"]
    /\ frame = [t \in Threads |-> <<>>]
    /\ issued = {}

\* the thread leaves Manager.write
Returned(t) == IF t = "main" THEN "idle" ELSE "done"

\* Manager.parse in the main context; MPIProtocol.on_data_received consumes an
\* edit request that reaches it and on_command starts the worker thread
parse_edit_request(data) ==
    LET r == parse(is_connected, handlers, read_buffer, data) IN
    /\ read_buffer' = r.read_buffer
    /\ pc' = IF r.received # <<>> THEN [pc EXCEPT !["worker"] = "edit"] ELSE pc

\* register(MPIProtocol): the handler joins the chain and its
\* on_connection_made writes the identify message
RegisterMPI ==
    /\ pc["main"] = "idle"
    /\ handlers = <<>>
    /\ handler_class[1] = NoClass
    /\ handlers' = <<1>>
    /\ handler_class' = [handler_class EXCEPT ![1] = MPIProtocol]
    /\ receiver' = register_wire(receiver, handlers, 1)
    /\ last_call' = [op |-> "register", index |-> 1,
                     raised |-> ""]
    /\ made' = Append(made, 1)
    /\ LET w == write(is_connected, <<1>>, write_buffer, <<MPIIdentify>>) IN
        /\ write_buffer' = w.write_buffer
        /\ sent' = Emit(sent, w.written)
    /\ issued' = issued \cup {MPIIdentify}
    /\ UNCHANGED <<is_connected, read_buffer, delivered, lost, pc, frame>>
    /\ UNCHANGED beyondThreads

\* the transport passes an MPI edit message to Manager.parse
ParseEditRequest ==
    /\ pc["main"] = "idle"
    /\ pc["worker"] = "unborn"
    /\ read_buffer = <<>>
    /\ parse_edit_request(<<EditRequest>>)
    /\ UNCHANGED <<is_connected, write_buffer, handlers, receiver, handler_class, sent,
                   delivered, lost, made, last_call, frame, issued>>
    /\ UNCHANGED beyondThreads

\* the main context calls Manager.write(data)
MainCallsWrite(k) ==
    /\ pc["main"] = "idle"
    /\ MainData(k) \notin issued
    /\ pc' = [pc EXCEPT !["main"] = "write_158"]
    /\ frame' = [frame EXCEPT !["main"] = <<MainData(k)>>]
    /\ issued' = issued \cup {MainData(k)}
    /\ UNCHANGED managerVars
    /\ UNCHANGED beyondThreads

\* the worker's edit ends: self.write(MPI_INIT + b"E" + ...)
WorkerCallsWrite ==
    /\ pc["worker"] = "edit"
    /\ pc' = [pc EXCEPT !["worker"] = "write_158"]
    /\ frame' = [frame EXCEPT !["worker"] = <<MPIReply>>]
    /\ issued' = issued \cup {MPIReply}
    /\ UNCHANGED managerVars
    /\ UNCHANGED beyondThreads

\* the main context calls Manager.connect()
MainCallsConnect ==
    /\ pc["main"] = "idle"
    /\ ~is_connected
    /\ pc' = [pc EXCEPT !["main"] = "connect_110"]
    /\ UNCHANGED <<managerVars, frame, issued>>
    /\ UNCHANGED beyondThreads

\* Manager.connect, one line (or one if block that only the main context
\* touches) per step
ConnectLine ==
    /\ \/ /\ pc["main"] = "connect_110"
          /\ is_connected' = TRUE
          /\ pc' = [pc EXCEPT !["main"] = "connect_111"]
          /\ UNCHANGED <<read_buffer, write_buffer, frame>>
       \/ /\ pc["main"] = "connect_111"
          /\ IF read_buffer # <<>>
             THEN LET r == parse(is_connected, handlers, <<>>, read_buffer) IN
                  /\ read_buffer' = r.read_buffer
                  /\ pc' = [pc EXCEPT !["main"] = "connect_115",
                                      !["worker"] = IF r.received # <<>> THEN "edit" ELSE @]
             ELSE /\ pc' = [pc EXCEPT !["main"] = "connect_115"]
                  /\ UNCHANGED read_buffer
          /\ UNCHANGED <<is_connected, write_buffer, frame>>
       \/ /\ pc["main"] = "connect_115"
          /\ pc' = [pc EXCEPT !["main"] = IF write_buffer # <<>> THEN "connect_116"
                                          ELSE "idle"]
          /\ UNCHANGED <<is_connected, read_buffer, write_buffer, frame>>
       \/ /\ pc["main"] = "connect_116"
          /\ frame' = [frame EXCEPT !["main"] = write_buffer]
          /\ pc' = [pc EXCEPT !["main"] = "connect_117"]
          /\ UNCHANGED <<is_connected, read_buffer, write_buffer>>
       \/ /\ pc["main"] = "connect_117"
          /\ write_buffer' = <<>>
          /\ pc' = [pc EXCEPT !["main"] = "write_158"]
          /\ UNCHANGED <<is_connected, read_buffer, frame>>
    /\ UNCHANGED <<handlers, receiver, handler_class, sent, delivered, lost, made, last_call,
                   issued>>
    /\ UNCHANGED beyondThreads

\* Manager.write in thread t, one line per step
WriteLine(t) ==
    /\ \/ /\ pc[t] = "write_158"
          /\ pc' = [pc EXCEPT ![t] = IF ~is_connected \/ handlers = <<>>
                                     THEN "write_159" ELSE "write_161"]
          /\ UNCHANGED <<write_buffer, frame, sent>>
       \/ /\ pc[t] = "write_159"
          /\ write_buffer' = write_buffer \o frame[t]
          /\ pc' = [pc EXCEPT ![t] = Returned(t)]
          /\ UNCHANGED <<frame, sent>>
       \/ /\ pc[t] = "write_161"
          /\ pc' = [pc EXCEPT ![t] = IF write_buffer # <<>> THEN "write_162"
                                     ELSE "write_164"]
          /\ UNCHANGED <<write_buffer, frame, sent>>
       \/ /\ pc[t] = "write_162"
          /\ frame' = [frame EXCEPT ![t] = write_buffer \o @]
          /\ pc' = [pc EXCEPT ![t] = "write_163"]
          /\ UNCHANGED <<write_buffer, sent>>
       \/ /\ pc[t] = "write_163"
          /\ write_buffer' = <<>>
          /\ pc' = [pc EXCEPT ![t] = "write_164"]
          /\ UNCHANGED <<frame, sent>>
       \/ /\ pc[t] = "write_164"
          /\ sent' = Emit(sent, frame[t])
          /\ pc' = [pc EXCEPT ![t] = Returned(t)]
          /\ UNCHANGED <<write_buffer, frame>>
    /\ UNCHANGED <<is_connected, read_buffer, handlers, receiver, handler_class,
                   delivered, lost, made, last_call, issued>>
    /\ UNCHANGED beyondThreads

ThreadsNext ==
    \/ RegisterMPI
    \/ ParseEditRequest
    \/ \E k \in 1..MaxMainWrites : MainCallsWrite(k)
    \/ WorkerCallsWrite
    \/ MainCallsConnect
    \/ ConnectLine
    \/ \E t \in Threads : WriteLine(t)

\* the messages given to the transport writer, in order
RECURSIVE Flat(_)
Flat(calls) == IF calls = <<>> THEN <<>> ELSE calls[1] \o Flat(Tail(calls))

Occurrences(message, data) == Cardinality({i \in 1..Len(data) : data[i] = message})

-----------------------------------------------------------------------------
(* mpi.py: the framing machine of MPIProtocol.  A handler is a record h of  *)
(* its fields, of the local app_data_buffer of on_data_received, and of     *)
(* out: the application bytes it has passed on and the worker threads it    *)
(* has started, in order.                                                   *)

MPI_INIT == <<126, 36, 35, 69>>
command_map == {69, 86}

MPIProtocol_init ==
    [state |-> "DATA",
     mpi_buffer |-> <<>>,
     command |-> <<>>,
     length |-> None,
     app_data_buffer |-> <<>>,
     out |-> <<>>]

\* threading.Thread(target=self.command_map[command], args=(data,)).start()
ThreadEvent(command, data) == [t |-> "thread", c |-> command, o |-> None, d |-> data]

Min(a, b) == IF a < b THEN a ELSE b

\* data[:n]
Head_to(data, n) == SubSeq(data, 1, Min(n, Len(data)))

\* bytearray.isdigit()
isdigit(data) == data # <<>> /\ \A i \in 1..Len(data) : data[i] \in 48..57

\* int(digits)
RECURSIVE int(_)
int(digits) ==
    IF digits = <<>> THEN 0
    ELSE int(SubSeq(digits, 1, Len(digits) - 1)) * 10 + (digits[Len(digits)] - 48)

\* b"%d" % n
RECURSIVE decimal(_)
decimal(n) == IF n < 10 THEN <<48 + n>> ELSE decimal(n \div 10) \o <<48 + (n % 10)>>

\* if app_data_buffer: super().on_data_received(bytes(app_data_buffer))
MPI_flush(h) ==
    IF h.app_data_buffer # <<>>
    THEN [h EXCEPT !.out = Append(@, AppEvent(h.app_data_buffer)), !.app_data_buffer = <<>>]
    ELSE h

MPI_on_unhandled_command(h, command, data) ==
    [h EXCEPT !.out = Append(@, AppEvent(MPI_INIT \o <<command>> \o decimal(Len(data))
                                         \o <<LF>> \o data))]

MPI_on_command(h, command, data) ==
    IF command \notin command_map
    THEN MPI_on_unhandled_command(h, command, data)
    ELSE [h EXCEPT !.out = Append(@, ThreadEvent(command, data))]

\* each state's branch of the while loop: the handler and the data left
mpi_data_state(h, data) ==
    LET part == Partition(data, LF) IN
    [h |-> [h EXCEPT !.app_data_buffer =
                         @ \o part.head \o (IF part.separator THEN <<LF>> ELSE <<>>),
                     !.state = IF part.separator THEN "NEWLINE" ELSE @],
     data |-> part.tail]

mpi_newline_state(h, data) ==
    [h |-> [h EXCEPT !.state = IF StartsWith(MPI_INIT, Head_to(data, Len(MPI_INIT)))
                               THEN "INIT" ELSE "DATA"],
     data |-> data]

\* an INIT branch that throws away the bytes that turned out not to be MPI_INIT
mpi_init_state_drops_buffer(h, data) ==
    LET remaining == Len(MPI_INIT) - Len(h.mpi_buffer)
        buffer == h.mpi_buffer \o Head_to(data, remaining)
        rest == Tail_from(data, remaining + 1)
    IN IF buffer = MPI_INIT
       THEN [h |-> [MPI_flush(h) EXCEPT !.mpi_buffer = <<>>, !.state = "COMMAND"],
             data |-> rest]
       ELSE IF ~StartsWith(MPI_INIT, buffer)
       THEN [h |-> [h EXCEPT !.mpi_buffer = <<>>, !.state = "DATA"], data |-> rest]
       ELSE [h |-> [h EXCEPT !.mpi_buffer = buffer], data |-> rest]

mpi_init_state(h, data) ==
    LET remaining == Len(MPI_INIT) - Len(h.mpi_buffer)
        buffer == h.mpi_buffer \o Head_to(data, remaining)
        rest == Tail_from(data, remaining + 1)
    IN IF buffer = MPI_INIT
       THEN [h |-> [MPI_flush(h) EXCEPT !.mpi_buffer = <<>>, !.state = "COMMAND"],
             data |-> rest]
       ELSE IF ~StartsWith(MPI_INIT, buffer)
       THEN [h |-> [h EXCEPT !.mpi_buffer = <<>>, !.state = "DATA"],
             data |-> buffer \o rest]
       ELSE [h |-> [h EXCEPT !.mpi_buffer = buffer], data |-> rest]

mpi_command_state(h, data) ==
    [h |-> [h EXCEPT !.command = Head_to(data, 1), !.state = "LENGTH"],
     data |-> Tail_from(data, 2)]

\* a LENGTH branch that gives up without putting the sentinel and the command
\* back
mpi_length_state_drops_header(h, data) ==
    LET part == Partition(data, LF)
        buffer == h.mpi_buffer \o part.head
        separator == IF part.separator THEN <<LF>> ELSE <<>>
    IN IF ~isdigit(buffer)
       THEN [h |-> [h EXCEPT !.command = <<>>, !.mpi_buffer = <<>>, !.state = "DATA"],
             data |-> buffer \o separator \o part.tail]
       ELSE IF part.separator
       THEN [h |-> [h EXCEPT !.length = int(buffer), !.mpi_buffer = <<>>, !.state = "BODY"],
             data |-> part.tail]
       ELSE [h |-> [h EXCEPT !.mpi_buffer = buffer], data |-> part.tail]

mpi_length_state(h, data) ==
    LET part == Partition(data, LF)
        buffer == h.mpi_buffer \o part.head
        separator == IF part.separator THEN <<LF>> ELSE <<>>
    IN IF ~isdigit(buffer)
       THEN [h |-> [h EXCEPT !.command = <<>>, !.mpi_buffer = <<>>, !.state = "DATA"],
             data |-> MPI_INIT \o h.command \o buffer \o separator \o part.tail]
       ELSE IF part.separator
       THEN [h |-> [h EXCEPT !.length = int(buffer), !.mpi_buffer = <<>>, !.state = "BODY"],
             data |-> part.tail]
       ELSE [h |-> [h EXCEPT !.mpi_buffer = buffer], data |-> part.tail]

\* a BODY branch that takes every byte of the call for the body
mpi_body_state_takes_all(h, data) ==
    LET buffer == h.mpi_buffer \o data IN
    IF Len(buffer) >= h.length
    THEN [h |-> [MPI_on_command(h, h.command[1], buffer)
                     EXCEPT !.command = <<>>, !.length = None, !.mpi_buffer = <<>>,
                            !.state = "DATA"],
          data |-> <<>>]
    ELSE [h |-> [h EXCEPT !.mpi_buffer = buffer], data |-> <<>>]

mpi_body_state(h, data) ==
    LET remaining == h.length - Len(h.mpi_buffer)
        buffer == h.mpi_buffer \o Head_to(data, remaining)
        rest == Tail_from(data, remaining + 1)
    IN IF Len(buffer) = h.length
       THEN [h |-> [MPI_on_command(h, h.command[1], buffer)
                        EXCEPT !.command = <<>>, !.length = None, !.mpi_buffer = <<>>,
                               !.state = "DATA"],
             data |-> rest]
       ELSE [h |-> [h EXCEPT !.mpi_buffer = buffer], data |-> rest]

mpi_state_branch(h, data) ==
    CASE h.state = "DATA" -> mpi_data_state(h, data)
      [] h.state = "NEWLINE" -> mpi_newline_state(h, data)
      [] h.state = "INIT" -> mpi_init_state(h, data)
      [] h.state = "COMMAND" -> mpi_command_state(h, data)
      [] h.state = "LENGTH" -> mpi_length_state(h, data)
      [] h.state = "BODY" -> mpi_body_state(h, data)

\* while data: ...
RECURSIVE MPI_loop(_, _)
mpi_next_turn(r) == MPI_loop(r.h, r.data)

MPI_loop(h, data) ==
    IF data = <<>> THEN h ELSE mpi_next_turn(mpi_state_branch(h, data))

MPI_on_data_received(h, data) == MPI_flush(MPI_loop(h, data))

-----------------------------------------------------------------------------
(* SpecMPI: the peer sends pieces of MPIPieces, at most MaxPieces of them;  *)
(* the handler receives the bytes in arrival order, in chunks that end      *)
(* anywhere.                                                                *)

MaxPieces == 3
MaxMPIChunk == 5
MPIPieces ==
    {<<LF>>, <<120>>, <<126, 36>>, <<35>>, <<35, 69>>, <<86, 49, LF, 120>>}

MPIStart ==
    /\ mpi = MPIProtocol_init
    /\ mpi_wire = <<>>
    /\ mpi_received = <<>>
    /\ mpi_sent = 0

MPIPeerSends(piece) ==
    /\ mpi_sent < MaxPieces
    /\ mpi_sent' = mpi_sent + 1
    /\ mpi_wire' = mpi_wire \o piece
    /\ UNCHANGED <<mpi, mpi_received>>
    /\ UNCHANGED beyondMPI

MPIReceive(n) ==
    /\ n <= Len(mpi_wire)
    /\ mpi' = MPI_on_data_received(mpi, SubSeq(mpi_wire, 1, n))
    /\ mpi_received' = mpi_received \o SubSeq(mpi_wire, 1, n)
    /\ mpi_wire' = Tail_from(mpi_wire, n + 1)
    /\ UNCHANGED mpi_sent
    /\ UNCHANGED beyondMPI

MPINext ==
    \/ \E piece \in MPIPieces : MPIPeerSends(piece)
    \/ \E n \in 1..MaxMPIChunk : MPIReceive(n)

\* data contains LF followed by MPI_INIT
ContainsSentinel(data) ==
    \E i \in 1..(Len(data) - Len(MPI_INIT)) :
        SubSeq(data, i, i + Len(MPI_INIT)) = <<LF>> \o MPI_INIT

-----------------------------------------------------------------------------
(* xml.py: the tokenizer and mode machine of XMLProtocol.  A handler is a   *)
(* record x of its fields, of the local app_data_buffer of                  *)
(* on_data_received and the exception the call raised, and of what it has   *)
(* done so far: forwarded is the application bytes it has passed on,        *)
(* concatenated; events is its on_xml_event calls in order; tags is the     *)
(* tags it has completed, each with the mode, the mode stack and the number *)
(* of events before and after it.  Strings are the sequences of their       *)
(* character codes; the input is ASCII, so decode_bytes leaves the codes as *)
(* they are.                                                                *)

LT == 60
GT == 62

b_gratuitous == <<103, 114, 97, 116, 117, 105, 116, 111, 117, 115>>
b_magic == <<109, 97, 103, 105, 99>>
b_movement == <<109, 111, 118, 101, 109, 101, 110, 116>>
b_prompt == <<112, 114, 111, 109, 112, 116>>
b_room == <<114, 111, 111, 109>>
b_name == <<110, 97, 109, 101>>
b_description == <<100, 101, 115, 99, 114, 105, 112, 116, 105, 111, 110>>
b_exits == <<101, 120, 105, 116, 115>>
b_terrain == <<116, 101, 114, 114, 97, 105, 110>>
b_line == <<108, 105, 110, 101>>
b_dynamic == <<100, 121, 110, 97, 109, 105, 99>>

\* the members of XMLMode by name
XMLMode ==
    [NONE |-> <<78, 79, 78, 69>>,
     DESCRIPTION |-> <<68, 69, 83, 67, 82, 73, 80, 84, 73, 79, 78>>,
     EXITS |-> <<69, 88, 73, 84, 83>>,
     MAGIC |-> <<77, 65, 71, 73, 67>>,
     NAME |-> <<78, 65, 77, 69>>,
     PROMPT |-> <<80, 82, 79, 77, 80, 84>>,
     ROOM |-> <<82, 79, 79, 77>>,
     TERRAIN |-> <<84, 69, 82, 82, 65, 73, 78>>]

\* what get_xml_mode returns for a name that is no member
NoXMLMode == "None"

OUTPUT_FORMATS == {"raw", "tintin", "normal"}

\* the bytes that bytes.strip() removes, and the characters str.split() splits at
BYTES_WHITESPACE == {9, 10, 11, 12, 13, 32}
STR_WHITESPACE == {9, 10, 11, 12, 13, 28, 29, 30, 31, 32}

\* data.lstrip(chars), data.rstrip(chars), data.strip(chars)
RECURSIVE lstrip(_, _)
lstrip(data, chars) ==
    IF data # <<>> /\ Head(data) \in chars THEN lstrip(Tail(data), chars) ELSE data

RECURSIVE rstrip(_, _)
rstrip(data, chars) ==
    IF data # <<>> /\ data[Len(data)] \in chars
    THEN rstrip(SubSeq(data, 1, Len(data) - 1), chars)
    ELSE data

strip(data, chars) == rstrip(lstrip(data, chars), chars)

\* text.upper()
upper(text) == [i \in 1..Len(text) |-> IF text[i] \in 97..122 THEN text[i] - 32 ELSE text[i]]

\* text.split(None, 1): the first word, <<>> when split returns an empty list
RECURSIVE word(_)
word(text) ==
    IF text = <<>> \/ Head(text) \in STR_WHITESPACE THEN <<>>
    ELSE <<Head(text)>> \o word(Tail(text))

split_first(text) == word(lstrip(text, STR_WHITESPACE))

\* data.splitlines(keepends=True), line being the bytes of the line under way
RECURSIVE splitlines(_, _)
splitlines(data, line) ==
    IF data = <<>> THEN (IF line = <<>> THEN <<>> ELSE <<line>>)
    ELSE IF Head(data) = CR /\ Len(data) >= 2 /\ data[2] = LF
    THEN <<line \o <<CR, LF>>>> \o splitlines(Tail_from(data, 3), <<>>)
    ELSE IF Head(data) \in {CR, LF}
    THEN <<line \o <<Head(data)>>>> \o splitlines(Tail(data), <<>>)
    ELSE splitlines(Tail(data), line \o <<Head(data)>>)

\* unescape_xml_bytes: numeric references first, then &gt; &lt; and last
\* &amp;.  A numeric reference is &#(x?)([0-9a-zA-Z]+); and becomes the byte
\* of that number; one that names no byte (a digit beyond the base, a number
\* above 255) makes the call raise ValueError and is left as it is here.
is_alnum(b) == b \in (48..57) \cup (65..90) \cup (97..122)

RECURSIVE alnum_end(_, _)
alnum_end(data, i) ==
    IF i <= Len(data) /\ is_alnum(data[i]) THEN alnum_end(data, i + 1) ELSE i

digit_value(b) ==
    IF b \in 48..57 THEN b - 48
    ELSE IF b \in 97..102 THEN b - 87
    ELSE IF b \in 65..70 THEN b - 55
    ELSE 16

RECURSIVE int_base(_, _)
int_base(value, base) ==
    IF value = <<>> THEN 0
    ELSE int_base(SubSeq(value, 1, Len(value) - 1), base) * base
         + digit_value(value[Len(value)])

\* the reference at the head of data: the index of its ';' (0 when there is
\* none), whether it is hexadecimal, and its digits
numeric_reference(data) ==
    LET end == alnum_end(data, 3)
        found == StartsWith(data, <<38, 35>>) /\ end > 3
                 /\ end <= Len(data) /\ data[end] = 59
        hex == found /\ data[3] = 120 /\ end > 4
    IN [end |-> IF found THEN end ELSE 0,
        base |-> IF hex THEN 16 ELSE 10,
        value |-> IF ~found THEN <<>>
                  ELSE SubSeq(data, IF hex THEN 4 ELSE 3, end - 1)]

names_a_byte(ref) ==
    /\ ref.end > 0
    /\ \A i \in 1..Len(ref.value) : digit_value(ref.value[i]) < ref.base
    /\ int_base(ref.value, ref.base) <= 255

RECURSIVE reference_to_bytes(_)
reference_to_bytes(data) ==
    IF data = <<>> THEN <<>>
    ELSE IF names_a_byte(numeric_reference(data))
    THEN <<int_base(numeric_reference(data).value, numeric_reference(data).base)>>
         \o reference_to_bytes(Tail_from(data, numeric_reference(data).end + 1))
    ELSE <<Head(data)>> \o reference_to_bytes(Tail(data))

unescape_xml_bytes(data) ==
    Replace(Replace(Replace(reference_to_bytes(data),
                            <<38, 103, 116, 59>>, <<GT>>),
                    <<38, 108, 116, 59>>, <<LT>>),
            <<38, 97, 109, 112, 59>>, <<38>>)

\* DIRECTIONS_REGEX.search(movement): dir= and an optional quote, then the
\* first direction of the alternation that follows
DIRECTIONS ==
    << <<110, 111, 114, 116, 104>>, <<101, 97, 115, 116>>, <<115, 111, 117, 116, 104>>,
       <<119, 101, 115, 116>>, <<117, 112>>, <<100, 111, 119, 110>> >>

direction_at(data) ==
    IF \E k \in 1..Len(DIRECTIONS) : StartsWith(data, DIRECTIONS[k])
    THEN DIRECTIONS[CHOOSE k \in 1..Len(DIRECTIONS) :
                        /\ StartsWith(data, DIRECTIONS[k])
                        /\ \A j \in 1..(k - 1) : ~StartsWith(data, DIRECTIONS[j])]
    ELSE <<>>

RECURSIVE direction_from_movement(_)
direction_from_movement(movement) ==
    IF movement = <<>> THEN <<>>
    ELSE IF /\ StartsWith(movement, <<100, 105, 114, 61>>)
            /\ direction_at(Tail_from(movement,
                                IF Len(movement) >= 5 /\ movement[5] \in {39, 34}
                                THEN 6 ELSE 5)) # <<>>
    THEN direction_at(Tail_from(movement,
                          IF Len(movement) >= 5 /\ movement[5] \in {39, 34} THEN 6 ELSE 5))
    ELSE direction_from_movement(Tail(movement))

get_xml_mode(tag) ==
    IF \E name \in DOMAIN XMLMode : XMLMode[name] = upper(tag)
    THEN CHOOSE name \in DOMAIN XMLMode : XMLMode[name] = upper(tag)
    ELSE NoXMLMode

tintin_replacements ==
    {b_prompt, b_name, <<116, 101, 108, 108>>, <<110, 97, 114, 114, 97, 116, 101>>,
     <<112, 114, 97, 121>>, <<115, 97, 121>>, <<101, 109, 111, 116, 101>>}

get_tintin_tag_replacement(tag, valid_tags) ==
    IF strip(tag, {47}) \notin valid_tags THEN <<>>
    ELSE IF StartsWith(tag, <<47>>) THEN <<58>> \o upper(strip(tag, {47}))
    ELSE upper(strip(tag, {47})) \o <<58>>

XMLProtocol_init(output_format) ==
    [output_format |-> output_format,
     state |-> "DATA",
     tag_buffer |-> <<>>,
     text_buffer |-> <<>>,
     dynamic_buffer |-> <<>>,
     line_buffer |-> <<>>,
     gratuitous |-> FALSE,
     mode |-> "NONE",
     parent_modes |-> <<>>,
     app_data_buffer |-> <<>>,
     raised |-> "",
     forwarded |-> <<>>,
     events |-> <<>>,
     tags |-> <<>>]

\* the IndexError of [0] on an empty list and that of list.pop on one
ListIndexOutOfRange == "IndexError: list index out of range"
PopFromEmptyList == "IndexError: pop from empty list"

on_xml_event(x, name, data) ==
    [x EXCEPT !.events = Append(@, [name |-> name, data |-> data])]

\* for line in lines: if line.strip(): self.on_xml_event("line", ...)
RECURSIVE line_events(_, _)
line_events(x, lines) ==
    IF lines = <<>> THEN x
    ELSE line_events(IF strip(Head(lines), BYTES_WHITESPACE) # <<>>
                     THEN on_xml_event(x, b_line,
                                       unescape_xml_bytes(rstrip(Head(lines), {CR, LF})))
                     ELSE x,
                     Tail(lines))

\* _handle_xml_text in mode NONE, lines being self._line_buffer.splitlines
text_lines(x, lines) ==
    IF lines # <<>> /\ lines[Len(lines)][Len(lines[Len(lines)])] \notin {CR, LF}
    THEN line_events([x EXCEPT !.line_buffer = lines[Len(lines)]],
                     SubSeq(lines, 1, Len(lines) - 1))
    ELSE line_events([x EXCEPT !.line_buffer = <<>>], lines)

\* text_routed without the branch for mode ROOM
text_routed_room_as_text(x, app_data) ==
    IF x.mode = "NONE" THEN text_lines(x, splitlines(x.line_buffer \o app_data, <<>>))
    ELSE [x EXCEPT !.text_buffer = @ \o app_data]

text_routed(x, app_data) ==
    IF x.mode = "NONE" THEN text_lines(x, splitlines(x.line_buffer \o app_data, <<>>))
    ELSE IF x.mode = "ROOM" THEN [x EXCEPT !.dynamic_buffer = @ \o app_data]
    ELSE [x EXCEPT !.text_buffer = @ \o app_data]

\* text_forwarded without the test of self._gratuitous
text_forwarded_gratuitous_too(x, app_data) ==
    [x EXCEPT !.app_data_buffer = @ \o app_data]

text_forwarded(x, app_data) ==
    IF x.output_format = "raw" \/ ~x.gratuitous
    THEN [x EXCEPT !.app_data_buffer = @ \o app_data]
    ELSE x

\* each state's branch of the while loop: the handler and the data left
handle_xml_text(x, data) ==
    LET part == Partition(data, LT) IN
    [x |-> [text_routed(text_forwarded(x, part.head), part.head)
                EXCEPT !.state = IF part.separator THEN "TAG" ELSE @],
     data |-> part.tail]

\* self._parent_modes.append(self._mode); self._mode = mode
push_mode(x, mode) == [x EXCEPT !.parent_modes = Append(@, x.mode), !.mode = mode]

\* a pop that reads the top of the stack and leaves it there
pop_mode_leaves_top(x) ==
    IF x.parent_modes = <<>> THEN [x EXCEPT !.raised = PopFromEmptyList]
    ELSE [x EXCEPT !.mode = x.parent_modes[Len(x.parent_modes)]]

\* self._mode = self._parent_modes.pop(): list.pop raises IndexError on an
\* empty list
pop_mode(x) ==
    IF x.parent_modes = <<>> THEN [x EXCEPT !.raised = PopFromEmptyList]
    ELSE [x EXCEPT !.mode = x.parent_modes[Len(x.parent_modes)],
                   !.parent_modes = SubSeq(@, 1, Len(@) - 1)]

closing_tag_of_mode(x, tag_name) ==
    pop_mode(IF x.mode = "ROOM"
             THEN [on_xml_event(x, b_dynamic,
                                unescape_xml_bytes(lstrip(x.dynamic_buffer, {CR, LF})))
                       EXCEPT !.dynamic_buffer = <<>>]
             ELSE [on_xml_event(x, tag_name, unescape_xml_bytes(x.text_buffer))
                       EXCEPT !.text_buffer = <<>>])

child_mode_from_none(x, tag, tag_name) ==
    IF tag_name = b_prompt THEN push_mode(x, "PROMPT")
    ELSE IF tag_name = b_room
    THEN on_xml_event(push_mode(x, "ROOM"), b_room, unescape_xml_bytes(Tail_from(tag, 6)))
    ELSE x

child_mode_from_room(x, tag_name) ==
    IF tag_name = b_name THEN push_mode(x, "NAME")
    ELSE IF tag_name = b_description THEN push_mode(x, "DESCRIPTION")
    ELSE IF tag_name = b_exits THEN push_mode(x, "EXITS")
    ELSE IF tag_name = b_terrain THEN push_mode(x, "TERRAIN")
    ELSE x

\* the if / elif chain on tag_name, is_closing_tag and self._mode
tag_branch(x, tag, tag_name, is_closing_tag) ==
    IF tag_name = b_gratuitous THEN [x EXCEPT !.gratuitous = ~is_closing_tag]
    ELSE IF is_closing_tag /\ get_xml_mode(tag_name) = x.mode
    THEN closing_tag_of_mode(x, tag_name)
    ELSE IF tag_name = b_magic THEN push_mode(x, "MAGIC")
    ELSE IF x.mode = "NONE" /\ tag_name = b_movement
    THEN on_xml_event(x, tag_name, direction_from_movement(unescape_xml_bytes(tag)))
    ELSE IF x.mode = "NONE" THEN child_mode_from_none(x, tag, tag_name)
    ELSE IF x.mode = "ROOM" THEN child_mode_from_room(x, tag_name)
    ELSE x

\* the bytes a completed tag adds to app_data_buffer
tag_forwarded(x, tag) ==
    IF x.output_format = "raw"
    THEN [x EXCEPT !.app_data_buffer = @ \o <<LT>> \o tag \o <<GT>>]
    ELSE IF x.output_format = "tintin" /\ ~x.gratuitous
    THEN [x EXCEPT !.app_data_buffer = @ \o get_tintin_tag_replacement(tag, tintin_replacements)]
    ELSE x

\* self.state = XMLState.DATA, reached unless the branch raised
tag_done(x) == IF x.raised # "" THEN x ELSE [x EXCEPT !.state = "DATA"]

\* the entry of tags for a completed tag: x is the handler before it, after
\* the handler after it
tag_recorded(x, tag, tag_name, after) ==
    [after EXCEPT !.tags = Append(@,
        [tag |-> tag,
         tag_name |-> tag_name,
         is_closing_tag |-> StartsWith(tag, <<47>>),
         mode |-> x.mode,
         parent_modes |-> x.parent_modes,
         events |-> Len(x.events),
         mode_after |-> after.mode,
         parent_modes_after |-> after.parent_modes,
         events_after |-> Len(after.events),
         raised |-> after.raised])]

\* the tag is complete: tag is bytes(self._tag_buffer).strip(), tag_name the
\* first word of decode_bytes(tag).strip("/"), and [0] of an empty list of
\* words raises IndexError
tag_complete(x, tag, tag_name) ==
    IF tag # <<>> /\ tag_name = <<>>
    THEN tag_recorded(x, tag, tag_name, [x EXCEPT !.tag_buffer = <<>>, !.raised = ListIndexOutOfRange])
    ELSE tag_recorded(x, tag, tag_name,
             tag_done(tag_branch(tag_forwarded([x EXCEPT !.tag_buffer = <<>>], tag),
                                 tag, tag_name, StartsWith(tag, <<47>>))))

tag_stripped(x, tag) == tag_complete(x, tag, split_first(strip(tag, {47})))

handle_xml_tag(x, data) ==
    LET part == Partition(data, GT) IN
    IF ~part.separator
    THEN [x |-> [x EXCEPT !.tag_buffer = @ \o part.head], data |-> part.tail]
    ELSE [x |-> tag_stripped(x, strip(x.tag_buffer \o part.head, BYTES_WHITESPACE)),
          data |-> part.tail]

\* while data: ..., left when a branch raises
RECURSIVE XML_loop(_, _)
xml_next_turn(r) == XML_loop(r.x, r.data)

XML_loop(x, data) ==
    IF data = <<>> \/ x.raised # "" THEN x
    ELSE xml_next_turn(IF x.state = "DATA" THEN handle_xml_text(x, data)
                       ELSE handle_xml_tag(x, data))

\* if app_data_buffer: super().on_data_received(...); a call that raised
\* passes nothing on, and its local app_data_buffer is gone
XML_flush(x) ==
    IF x.raised # "" \/ x.app_data_buffer = <<>> THEN [x EXCEPT !.app_data_buffer = <<>>]
    ELSE [x EXCEPT !.forwarded = @ \o (IF x.output_format = "raw" THEN x.app_data_buffer
                                       ELSE unescape_xml_bytes(x.app_data_buffer)),
                   !.app_data_buffer = <<>>]

XML_on_data_received(x, data) ==
    XML_flush(XML_loop([x EXCEPT !.app_data_buffer = <<>>, !.raised = ""], data))

-----------------------------------------------------------------------------
(* SpecXML: an XMLProtocol handler is constructed with one of the output    *)
(* formats; the peer sends pieces of XMLPieces, at most MaxXMLPieces of     *)
(* them, and the handler receives the bytes in arrival order, in chunks     *)
(* that end anywhere.                                                       *)

MaxXMLPieces == 3
MaxXMLChunk == 5
XMLPieces ==
    {<<60, 109, 97, 103, 105, 99, 62>>,        \* <magic>
     <<60, 47, 109, 97, 103, 105, 99, 62>>,    \* </magic>
     <<60, 47, 110, 111, 110, 101, 62>>,       \* </none>
     <<60, 32, 97, 62>>,                       \* < a>
     <<60, 47, 62>>,                           \* </>
     <<120, LF>>}                              \* x and a line feed

\* before register constructs the handler there is no output format
NotConstructed == ""

XMLStart ==
    /\ xml = XMLProtocol_init(NotConstructed)
    /\ xml_wire = <<>>
    /\ xml_received = <<>>
    /\ xml_sent = 0

XMLConstruct(output_format) ==
    /\ xml.output_format = NotConstructed
    /\ xml' = XMLProtocol_init(output_format)
    /\ UNCHANGED <<xml_wire, xml_received, xml_sent>>
    /\ UNCHANGED beyondXML

XMLPeerSends(piece) ==
    /\ xml.output_format # NotConstructed
    /\ xml_sent < MaxXMLPieces
    /\ xml_sent' = xml_sent + 1
    /\ xml_wire' = xml_wire \o piece
    /\ UNCHANGED <<xml, xml_received>>
    /\ UNCHANGED beyondXML

XMLReceive(n) ==
    /\ xml.output_format # NotConstructed
    /\ n <= Len(xml_wire)
    /\ xml' = XML_on_data_received(xml, SubSeq(xml_wire, 1, n))
    /\ xml_received' = xml_received \o SubSeq(xml_wire, 1, n)
    /\ xml_wire' = Tail_from(xml_wire, n + 1)
    /\ UNCHANGED xml_sent
    /\ UNCHANGED beyondXML

XMLNext ==
    \/ \E output_format \in OUTPUT_FORMATS : XMLConstruct(output_format)
    \/ \E piece \in XMLPieces : XMLPeerSends(piece)
    \/ \E n \in 1..MaxXMLChunk : XMLReceive(n)

-----------------------------------------------------------------------------
(* SpecRoundTrip: a payload is chosen byte by byte; this side then passes   *)
(* it to TelnetProtocol.request_negotiation with some option, or to         *)
(* Manager.write with escape=True on a connected manager, and the bytes     *)
(* given to the transport writer travel to a peer TelnetProtocol, which     *)
(* receives them in arrival order, in chunks that end anywhere.             *)

MaxPayload == 3
MaxRoundTripChunk == 11
RoundTripBytes == {NULL, LF, CR, 65, SE, IAC}
RoundTripOptions == {NULL, ECHO, SB, SE}
NotCalled == [kind |-> "none", option |-> None]

\* request_negotiation: self.write(IAC + SB + option + escape_iac(data) + IAC + SE)
request_negotiation(option, data) == <<IAC, SB, option>> \o escape_iac(data) \o <<IAC, SE>>

RoundTripStart ==
    /\ rt_data = <<>>
    /\ rt_call = NotCalled
    /\ rt_wire = <<>>
    /\ rt_peer = TelnetProtocol_init

ChooseByte(byte) ==
    /\ rt_call = NotCalled
    /\ Len(rt_data) < MaxPayload
    /\ rt_data' = Append(rt_data, byte)
    /\ UNCHANGED <<rt_call, rt_wire, rt_peer>>
    /\ UNCHANGED beyondRoundTrip

CallRequestNegotiation(option) ==
    /\ rt_call = NotCalled
    /\ rt_call' = [kind |-> "request_negotiation", option |-> option]
    /\ rt_wire' = request_negotiation(option, rt_data)
    /\ UNCHANGED <<rt_data, rt_peer>>
    /\ UNCHANGED beyondRoundTrip

CallWriteEscaped ==
    /\ rt_call = NotCalled
    /\ rt_call' = [kind |-> "write", option |-> None]
    /\ rt_wire' = write(TRUE, <<1>>, <<>>, Escaped(rt_data, TRUE, FALSE)).written
    /\ UNCHANGED <<rt_data, rt_peer>>
    /\ UNCHANGED beyondRoundTrip

PeerReceives(n) ==
    /\ n <= Len(rt_wire)
    /\ rt_peer' = Telnet_on_data_received(rt_peer, SubSeq(rt_wire, 1, n))
    /\ rt_wire' = Tail_from(rt_wire, n + 1)
    /\ UNCHANGED <<rt_data, rt_call>>
    /\ UNCHANGED beyondRoundTrip

RoundTripNext ==
    \/ \E byte \in RoundTripBytes : ChooseByte(byte)
    \/ \E option \in RoundTripOptions : CallRequestNegotiation(option)
    \/ CallWriteEscaped
    \/ \E n \in 1..MaxRoundTripChunk : PeerReceives(n)

\* data[i : i + len(part)] == part for some i
Contains(data, part) ==
    \E i \in 1..(Len(data) - Len(part) + 1) : SubSeq(data, i, i + Len(part) - 1) = part

-----------------------------------------------------------------------------
(* SpecReplay: the Manager with one TelnetProtocol handler whose policy is  *)
(* the default (on_enable_local returns False), used from one context.      *)
(* Data is counted in whole messages, and a byte string is a sequence of    *)
(* them: "text" is application text, "IAC DO" a request the handler         *)
(* answers, inside on_data_received, by writing "IAC WONT"; "written" is    *)
(* what the application passes to Manager.write.  parsed is the messages    *)
(* passed to Manager.parse so far and given the data of every               *)
(* handlers[0].on_data_received call.                                       *)

MaxParsed == 3
MaxWritten == 2
ReplayMessages == {"text", "IAC DO"}
TelnetProtocol == 1

ReplayStart ==
    /\ parsed = <<>>
    /\ given = <<>>

\* a write that sends the data and leaves the write buffer where it is
Manager_write_around_buffer(m, data) ==
    IF m.is_connected /\ m.handlers # <<>>
    THEN [m EXCEPT !.sent = Emit(@, data)]
    ELSE [m EXCEPT !.write_buffer = @ \o data]

\* Manager.write(data) under the manager m
Manager_write(m, data) ==
    [m EXCEPT !.write_buffer = write(m.is_connected, m.handlers, @, data).write_buffer,
              !.sent = Emit(@, write(m.is_connected, m.handlers, m.write_buffer, data).written)]

\* TelnetProtocol.on_data_received(data) under the manager m (its
\* connection flag, chain, write buffer and what the writer and the
\* application receiver were given): text is collected and flushed to the
\* receiver before a command is dispatched and at the end; on_do refuses and
\* _wont goes through Manager.write
RECURSIVE Telnet_answers(_, _, _)
Telnet_answers(m, app_data, data) ==
    IF data = <<>> THEN [m EXCEPT !.delivered = Emit(@, app_data)]
    ELSE IF Head(data) = "IAC DO"
    THEN Telnet_answers(Manager_write([m EXCEPT !.delivered = Emit(@, app_data)],
                                      <<"IAC WONT">>),
                        <<>>, Tail(data))
    ELSE Telnet_answers(m, Append(app_data, Head(data)), Tail(data))

\* a parse that gives the handler the new data without the buffered data
Manager_parse_drops_buffer(m, data) ==
    IF parse(m.is_connected, m.handlers, m.read_buffer, data).received = <<>>
    THEN [m EXCEPT !.read_buffer = parse(m.is_connected, m.handlers, @, data).read_buffer]
    ELSE Telnet_answers([m EXCEPT !.read_buffer = <<>>, !.given = Append(@, data)],
                        <<>>, data)

\* Manager.parse(data) under the manager m
Manager_parse(m, data) ==
    IF parse(m.is_connected, m.handlers, m.read_buffer, data).received = <<>>
    THEN [m EXCEPT !.read_buffer = parse(m.is_connected, m.handlers, @, data).read_buffer]
    ELSE Telnet_answers(
             [m EXCEPT !.read_buffer = <<>>,
                       !.given = Append(@, parse(m.is_connected, m.handlers,
                                                 m.read_buffer, data).received)],
             <<>>, parse(m.is_connected, m.handlers, m.read_buffer, data).received)

\* the two if blocks of Manager.connect, m being connected already
connect_reads(m) ==
    IF m.read_buffer # <<>> THEN Manager_parse([m EXCEPT !.read_buffer = <<>>], m.read_buffer)
    ELSE m

connect_writes(m) ==
    IF m.write_buffer # <<>> THEN Manager_write([m EXCEPT !.write_buffer = <<>>], m.write_buffer)
    ELSE m

Manager_connect(m) ==
    IF m.is_connected THEN m
    ELSE connect_writes(connect_reads([m EXCEPT !.is_connected = TRUE]))

TheManager ==
    [is_connected |-> is_connected, handlers |-> handlers, read_buffer |-> read_buffer,
     write_buffer |-> write_buffer, sent |-> sent, delivered |-> delivered, given |-> given]

ManagerBecomes(m, op) ==
    /\ is_connected' = m.is_connected
    /\ read_buffer' = m.read_buffer
    /\ write_buffer' = m.write_buffer
    /\ sent' = m.sent
    /\ delivered' = m.delivered
    /\ given' = m.given
    /\ last_call' = [op |-> op, index |-> 0, raised |-> ""]

\* register(TelnetProtocol); its on_connection_made writes nothing
ReplayRegister ==
    /\ handler_class[1] = NoClass
    /\ handlers' = <<1>>
    /\ handler_class' = [handler_class EXCEPT ![1] = TelnetProtocol]
    /\ receiver' = register_wire(receiver, handlers, 1)
    /\ last_call' = [op |-> "register", index |-> 1,
                     raised |-> ""]
    /\ made' = Append(made, 1)
    /\ UNCHANGED <<is_connected, read_buffer, write_buffer, sent, delivered, lost,
                   parsed, given>>
    /\ UNCHANGED beyondReplay

ReplayParse(message) ==
    /\ Len(parsed) < MaxParsed
    /\ parsed' = Append(parsed, message)
    /\ ManagerBecomes(Manager_parse(TheManager, <<message>>), "parse")
    /\ UNCHANGED <<handlers, receiver, handler_class, lost, made>>
    /\ UNCHANGED beyondReplay

ReplayWrite ==
    /\ Occurrences("written", Flat(sent) \o write_buffer) < MaxWritten
    /\ ManagerBecomes(Manager_write(TheManager, <<"written">>), "write")
    /\ UNCHANGED <<handlers, receiver, handler_class, lost, made, parsed>>
    /\ UNCHANGED beyondReplay

ReplayConnect ==
    /\ ManagerBecomes(Manager_connect(TheManager), "connect")
    /\ UNCHANGED <<handlers, receiver, handler_class, lost, made, parsed>>
    /\ UNCHANGED beyondReplay

ReplayNext ==
    \/ ReplayRegister
    \/ \E message \in ReplayMessages : ReplayParse(message)
    \/ ReplayWrite
    \/ ReplayConnect

\* the answers the handler writes while it receives data
RECURSIVE Answers(_)
Answers(data) ==
    IF data = <<>> THEN <<>>
    ELSE IF Head(data) = "IAC DO" THEN <<"IAC WONT">> \o Answers(Tail(data))
    ELSE Answers(Tail(data))

-----------------------------------------------------------------------------
(* SpecRegistration: Manager.register and Manager.unregister called with    *)
(* a class or with an instance, whichever they require; asked is what the   *)
(* last of these calls was given.                                           *)

Handlers == {AClass(class) : class \in HandlerClasses} \cup
            {AnInstance(instance) : instance \in Instances}

RegistrationStart == asked = NoHandler

\* raise TypeError: nothing else has happened
RaiseTypeError(op) ==
    /\ last_call' = [op |-> op, index |-> 0, raised |-> "TypeError"]
    /\ UNCHANGED <<is_connected, read_buffer, write_buffer, handlers, receiver,
                   handler_class, sent, delivered, lost, made>>

CallRegister(handler) ==
    /\ handler.kind = "instance" => handler.id \in Constructed
    /\ asked' = handler
    /\ IF handler.kind # "class" THEN RaiseTypeError("register") ELSE register(handler.id)
    /\ UNCHANGED beyondRegistration

CallUnregister(handler) ==
    /\ asked' = handler
    /\ IF handler.kind = "class" THEN RaiseTypeError("unregister") ELSE unregister(handler.id)
    /\ UNCHANGED beyondRegistration

RegistrationNext ==
    \/ Connect
    \/ \E handler \in Handlers : CallRegister(handler)
    \/ \E handler \in Handlers : CallUnregister(handler)
    \/ Disconnect

-----------------------------------------------------------------------------
(* SpecJoin: MPIProtocol.on_command and MPIProtocol.on_connection_lost,     *)
(* called from the one context that drives the handler, and the worker      *)
(* threads on_command starts.  A worker is a number; mpi_threads is         *)
(* self._mpi_threads; thread_state is what threading knows of each worker   *)
(* and thread_target the command it serves; lost_pc is where the driving       *)
(* context stands in on_connection_lost and join_at the place of its for    *)
(* loop in the list.                                                        *)

MaxWorkers == 3
Workers == 1..MaxWorkers
MPICommands == command_map \cup {88}

JoinStart ==
    /\ mpi_threads = <<>>
    /\ thread_state = [k \in Workers |-> "unborn"]
    /\ thread_target = [k \in Workers |-> NULL]
    /\ lost_pc = "idle"
    /\ join_at = 0

Started == {k \in Workers : thread_state[k] # "unborn"}

\* a join that returns whatever the thread is doing
join_returns_at_once(state) == TRUE

\* thread.join() returns once the thread has terminated
join_returns(state) == state = "terminated"

\* on_command(command, data): a command of command_map gets a thread, which
\* is appended to the list and started; any other goes to
\* on_unhandled_command
OnCommand(command) ==
    /\ lost_pc \in {"idle", "returned"}
    /\ lost_pc' = "idle"
    /\ IF command \in command_map
       THEN /\ Cardinality(Started) < MaxWorkers
            /\ LET thread == Cardinality(Started) + 1 IN
                /\ mpi_threads' = Append(mpi_threads, thread)
                /\ thread_state' = [thread_state EXCEPT ![thread] = "running"]
                /\ thread_target' = [thread_target EXCEPT ![thread] = command]
       ELSE UNCHANGED <<mpi_threads, thread_state, thread_target>>
    /\ UNCHANGED join_at
    /\ UNCHANGED beyondJoin

\* the target of a worker, edit or view, returns
WorkerReturns(thread) ==
    /\ thread_state[thread] = "running"
    /\ thread_state' = [thread_state EXCEPT ![thread] = "terminated"]
    /\ UNCHANGED <<mpi_threads, thread_target, lost_pc, join_at>>
    /\ UNCHANGED beyondJoin

\* the manager calls on_connection_lost: for thread in self._mpi_threads
CallOnConnectionLost ==
    /\ lost_pc = "idle"
    /\ lost_pc' = "join"
    /\ join_at' = 1
    /\ UNCHANGED <<mpi_threads, thread_state, thread_target>>
    /\ UNCHANGED beyondJoin

\* thread.join() of the for loop, or the loop's end
JoinLine ==
    /\ lost_pc = "join"
    /\ IF join_at > Len(mpi_threads)
       THEN /\ lost_pc' = "clear"
            /\ join_at' = 0
       ELSE /\ join_returns(thread_state[mpi_threads[join_at]])
            /\ join_at' = join_at + 1
            /\ UNCHANGED lost_pc
    /\ UNCHANGED <<mpi_threads, thread_state, thread_target>>
    /\ UNCHANGED beyondJoin

\* self._mpi_threads.clear(), and on_connection_lost returns
ClearLine ==
    /\ lost_pc = "clear"
    /\ mpi_threads' = <<>>
    /\ lost_pc' = "returned"
    /\ UNCHANGED <<thread_state, thread_target, join_at>>
    /\ UNCHANGED beyondJoin

JoinNext ==
    \/ \E command \in MPICommands : OnCommand(command)
    \/ \E thread \in Workers : WorkerReturns(thread)
    \/ CallOnConnectionLost
    \/ JoinLine
    \/ ClearLine

-----------------------------------------------------------------------------
(* SpecStream: a server that keeps to MCCP sends its stream to the handler  *)
(* of SpecMCCP.  It offers an MCCP option, and once the handler has agreed  *)
(* it may send the activation sentinel of that option, then compressed      *)
(* data, then the end of the compressed stream, then plain data again; it   *)
(* may also withdraw the option before it activates compression.  The      *)
(* transport hands the handler the bytes in arrival order, in chunks that   *)
(* end anywhere.  stream_received is the bytes the handler was given,       *)
(* stream_forwarded the bytes it passed to super().on_data_received, and    *)
(* stream_plain the server's stream as it is without compression.           *)

MaxStream == 6
MaxStreamChunk == 6
PlainMessages == {<<65>>, <<IAC, NOP>>, <<IAC, SB, ECHO, IAC, SE>>}
CompressedMessages == {<<65>>, <<IAC, NOP>>}
TailMessages == {<<65>>, <<IAC, NOP>>}
Sentinel(option) == IF option = MCCP1 THEN <<IAC, SB, MCCP1, WILL, SE>>
                    ELSE <<IAC, SB, MCCP2, IAC, SE>>

\* zlib's deflate of the data, without the end of the stream
DeflatedAll(data) == [i \in 1..Len(data) |-> Deflated(data[i])]

StreamStart ==
    /\ stream_phase = "start"
    /\ stream_option = None
    /\ stream_sent = 0
    /\ stream_received = <<>>
    /\ stream_forwarded = <<>>
    /\ stream_plain = <<>>
    /\ stream_tail = <<>>

\* the server puts bytes on the wire that stand for the plain bytes
ServerSends(bytes, plain) ==
    /\ stream_sent < MaxStream
    /\ stream_sent' = stream_sent + 1
    /\ wire' = wire \o bytes
    /\ stream_plain' = stream_plain \o plain
    /\ UNCHANGED <<compression_enabled, mccp_version, compressed_input_buffer, decompressor,
                   mccp_telnet, mccp_option_states, mccp_raised, peer_sent,
                   stream_received, stream_forwarded>>
    /\ UNCHANGED beyondStream

ServerSendsPlain(message) ==
    /\ stream_phase \in {"agreed", "withdrawn"}
    /\ ServerSends(message, message)
    /\ UNCHANGED <<stream_phase, stream_option, stream_tail>>

ServerOffers(option) ==
    /\ stream_phase = "start"
    /\ stream_phase' = "offered"
    /\ stream_option' = option
    /\ ServerSends(<<IAC, WILL, option>>, <<IAC, WILL, option>>)
    /\ UNCHANGED stream_tail

\* the handler's IAC DO reaches the server
ServerIsAnswered ==
    /\ stream_phase = "offered"
    /\ wire = <<>>
    /\ mccp_option_states[stream_option].him.enabled
    /\ stream_phase' = "agreed"
    /\ UNCHANGED <<stream_option, stream_sent, stream_received, stream_forwarded,
                   stream_plain, stream_tail>>
    /\ UNCHANGED mccpVars
    /\ UNCHANGED beyondStream

ServerWithdraws ==
    /\ stream_phase = "agreed"
    /\ stream_phase' = "withdrawn"
    /\ ServerSends(<<IAC, WONT, stream_option>>, <<IAC, WONT, stream_option>>)
    /\ UNCHANGED <<stream_option, stream_tail>>

ServerStartsCompression ==
    /\ stream_phase = "agreed"
    /\ stream_phase' = "compressed"
    /\ ServerSends(Sentinel(stream_option), <<>>)
    /\ UNCHANGED <<stream_option, stream_tail>>

ServerSendsCompressed(message) ==
    /\ stream_phase = "compressed"
    /\ ServerSends(DeflatedAll(message), message)
    /\ UNCHANGED <<stream_phase, stream_option, stream_tail>>

ServerEndsCompression ==
    /\ stream_phase = "compressed"
    /\ stream_phase' = "ended"
    /\ ServerSends(<<StreamEnd>>, <<>>)
    /\ UNCHANGED <<stream_option, stream_tail>>

ServerSendsTail(message) ==
    /\ stream_phase = "ended"
    /\ ServerSends(message, message)
    /\ stream_tail' = stream_tail \o message
    /\ UNCHANGED <<stream_phase, stream_option>>

\* the transport calls on_data_received with the next n bytes
StreamReceive(n) ==
    /\ n <= Len(wire)
    /\ MCCPBecomes(MCCP_on_data_received(MCCPHandler, SubSeq(wire, 1, n)))
    /\ stream_forwarded' =
           stream_forwarded \o MCCP_on_data_received(MCCPHandler, SubSeq(wire, 1, n)).forwarded
    /\ stream_received' = stream_received \o SubSeq(wire, 1, n)
    /\ wire' = Tail_from(wire, n + 1)
    /\ UNCHANGED <<peer_sent, stream_phase, stream_option, stream_sent, stream_plain,
                   stream_tail>>
    /\ UNCHANGED beyondStream

StreamNext ==
    \/ \E message \in PlainMessages : ServerSendsPlain(message)
    \/ \E option \in MCCPOptions : ServerOffers(option)
    \/ ServerIsAnswered
    \/ ServerWithdraws
    \/ ServerStartsCompression
    \/ \E message \in CompressedMessages : ServerSendsCompressed(message)
    \/ ServerEndsCompression
    \/ \E message \in TailMessages : ServerSendsTail(message)
    \/ \E n \in 1..MaxStreamChunk : StreamReceive(n)

-----------------------------------------------------------------------------
(* SpecMessage: the peer sends whole MPI messages to the handler of SpecMPI, *)
(* at most MaxMPIMessages of them: well-formed ones with a command of        *)
(* command_map, well-formed ones with another command, ones whose length     *)
(* field is empty or holds a non-digit, and plain text.  The handler         *)
(* receives the bytes in arrival order, in chunks that end anywhere.         *)
(* msg_kinds is the kinds of message sent so far, msg_app the bytes the      *)
(* application is to be given for them (the leading LF of a message that     *)
(* starts a worker, every byte of any other) and msg_threads the workers     *)
(* that are to be started.                                                   *)

MaxMPIMessages == 2
MaxMessageChunk == 10

\* LF ~$#E <cmd> <digits>
Header(cmd, digits) == <<LF>> \o MPI_INIT \o <<cmd>> \o digits
Message(cmd, digits, body) == Header(cmd, digits) \o <<LF>> \o body

\* digits and bodies of well-formed messages: "1" and x, "01" and x, "2" and
\* LF ~
LengthsAndBodies ==
    {<<<<49>>, <<120>>>>, <<<<48, 49>>, <<120>>>>, <<<<50>>, <<LF, 126>>>>}
\* length fields that are no number, with what ends them: "", "1x", "x"
BadLengths == {<<LF>>, <<49, 120, LF>>, <<120>>}
\* X, a command that is not in command_map
UnknownCommands == {88}

MessageStart ==
    /\ msg_kinds = {}
    /\ msg_app = <<>>
    /\ msg_threads = <<>>

PeerSendsMessage(kind, bytes, app, threads) ==
    /\ mpi_sent < MaxMPIMessages
    /\ mpi_sent' = mpi_sent + 1
    /\ mpi_wire' = mpi_wire \o bytes
    /\ msg_kinds' = msg_kinds \cup {kind}
    /\ msg_app' = msg_app \o app
    /\ msg_threads' = msg_threads \o threads
    /\ UNCHANGED <<mpi, mpi_received>>
    /\ UNCHANGED beyondMessage

PeerSendsKnown(cmd, lb) ==
    PeerSendsMessage("known", Message(cmd, lb[1], lb[2]), <<LF>>, <<ThreadEvent(cmd, lb[2])>>)

PeerSendsUnknown(cmd, lb) ==
    PeerSendsMessage("unknown", Message(cmd, lb[1], lb[2]), Message(cmd, lb[1], lb[2]), <<>>)

PeerSendsMalformed(cmd, bad) ==
    PeerSendsMessage("malformed", Header(cmd, <<>>) \o bad, Header(cmd, <<>>) \o bad, <<>>)

PeerSendsText ==
    PeerSendsMessage("text", <<120>>, <<120>>, <<>>)

\* out with the application bytes of calls that follow each other joined
RECURSIVE Joined(_)
Joined(out) ==
    IF Len(out) < 2 THEN out
    ELSE IF out[1].t = "app" /\ out[2].t = "app"
    THEN Joined(<<AppEvent(out[1].d \o out[2].d)>> \o Tail(Tail(out)))
    ELSE <<out[1]>> \o Joined(Tail(out))

\* the transport calls on_data_received with the next n bytes
MessageReceive(n) ==
    /\ n <= Len(mpi_wire)
    /\ mpi' = [MPI_on_data_received(mpi, SubSeq(mpi_wire, 1, n)) EXCEPT !.out = Joined(@)]
    /\ mpi_received' = mpi_received \o SubSeq(mpi_wire, 1, n)
    /\ mpi_wire' = Tail_from(mpi_wire, n + 1)
    /\ UNCHANGED <<mpi_sent, msg_kinds, msg_app, msg_threads>>
    /\ UNCHANGED beyondMessage

MessageNext ==
    \/ \E cmd \in command_map, lb \in LengthsAndBodies : PeerSendsKnown(cmd, lb)
    \/ \E cmd \in UnknownCommands, lb \in LengthsAndBodies : PeerSendsUnknown(cmd, lb)
    \/ \E cmd \in command_map, bad \in BadLengths : PeerSendsMalformed(cmd, bad)
    \/ PeerSendsText
    \/ \E n \in 1..MaxMessageChunk : MessageReceive(n)

-----------------------------------------------------------------------------
(* SpecMarkup: an XMLProtocol handler is constructed with one of the output *)
(* formats; the game sends one document of MarkupDocuments, and the handler *)
(* receives its bytes in arrival order, in chunks that end anywhere, the    *)
(* whole document in one call included.  A document is the bytes before a   *)
(* <gratuitous> ... </gratuitous> pair, the bytes inside it and the bytes   *)
(* after it; RoomExample has no pair.                                       *)

MaxMarkupChunk == 53

\* <room id=1><name>Foo</name>bar<exits>n</exits></room>
RoomExample ==
    [pair |-> FALSE,
     before |-> <<60, 114, 111, 111, 109, 32, 105, 100, 61, 49, 62, 60, 110,
                97, 109, 101, 62, 70, 111, 111, 60, 47, 110, 97, 109, 101,
                62, 98, 97, 114, 60, 101, 120, 105, 116, 115, 62, 110, 60,
                47, 101, 120, 105, 116, 115, 62, 60, 47, 114, 111, 111,
                109, 62>>,
     inside |-> <<>>,
     after |-> <<>>,
     inside_events |-> {}]

\* <room><name>A</name> <gratuitous> <description>d</description>x </gratuitous> y</room>
GratuitousDescription ==
    [pair |-> TRUE,
     before |-> <<60, 114, 111, 111, 109, 62, 60, 110, 97, 109, 101, 62, 65, 60, 47, 110, 97, 109, 101, 62>>,
     inside |-> <<60, 100, 101, 115, 99, 114, 105, 112, 116, 105, 111, 110,
                62, 100, 60, 47, 100, 101, 115, 99, 114, 105, 112, 116,
                105, 111, 110, 62, 120>>,
     after |-> <<121, 60, 47, 114, 111, 111, 109, 62>>,
     inside_events |-> {[name |-> b_description, data |-> <<100>>]}]

\* a <gratuitous> x<prompt>p</prompt> </gratuitous> <prompt>q</prompt>
GratuitousPrompt ==
    [pair |-> TRUE,
     before |-> <<97>>,
     inside |-> <<120, 60, 112, 114, 111, 109, 112, 116, 62, 112, 60, 47,
                112, 114, 111, 109, 112, 116, 62>>,
     after |-> <<60, 112, 114, 111, 109, 112, 116, 62, 113, 60, 47, 112, 114,
               111, 109, 112, 116, 62>>,
     inside_events |-> {[name |-> b_prompt, data |-> <<112>>]}]

\* a&lt;b&#67;
EntityText ==
    [pair |-> FALSE,
     before |-> <<97, 38, 108, 116, 59, 98, 38, 35, 54, 55, 59>>,
     inside |-> <<>>,
     after |-> <<>>,
     inside_events |-> {}]

MarkupDocuments == {RoomExample, GratuitousDescription, GratuitousPrompt, EntityText}

NoDocument == [pair |-> FALSE, before |-> <<>>, inside |-> <<>>, after |-> <<>>, inside_events |-> {}]

\* the bytes of a document on the wire
Whole(doc) ==
    IF doc.pair
    THEN doc.before \o <<LT>> \o b_gratuitous \o <<GT>> \o doc.inside
         \o <<LT, 47>> \o b_gratuitous \o <<GT>> \o doc.after
    ELSE doc.before

MarkupStart == markup_doc = NoDocument

MarkupGameSends(doc) ==
    /\ xml.output_format # NotConstructed
    /\ xml_sent = 0
    /\ xml_sent' = 1
    /\ xml_wire' = Whole(doc)
    /\ markup_doc' = doc
    /\ UNCHANGED <<xml, xml_received>>
    /\ UNCHANGED beyondMarkup

MarkupNext ==
    \/ \E output_format \in OUTPUT_FORMATS : XMLConstruct(output_format)
    \/ \E doc \in MarkupDocuments : MarkupGameSends(doc)
    \/ \E n \in 1..MaxMarkupChunk : XMLReceive(n)

-----------------------------------------------------------------------------
(* gmcp.py: GMCPMixIn, on top of the option negotiation of TelnetProtocol.  *)
(* A handler g holds its role, its client info (None, or client and         *)
(* version), _is_gmcp_initialized, the OptionState of option GMCP, the      *)
(* bytes it wrote during the current call, the on_gmcp_message calls of the *)
(* current call and the exception the call raised.                          *)

\* the bytes that \s and [\w.-] match in a bytes pattern
is_package_byte(b) == is_alnum(b) \/ b \in {95, 46, 45}

lower(text) == [i \in 1..Len(text) |-> IF text[i] \in 65..90 THEN text[i] + 32 ELSE text[i]]

RECURSIVE package_end(_, _)
package_end(data, i) ==
    IF i <= Len(data) /\ is_package_byte(data[i]) THEN package_end(data, i + 1) ELSE i

\* GMCP_MESSAGE_REGEX.search(data): white space, the longest run of package
\* bytes, white space, the value up to the trailing white space; '.' does
\* not match LF, so a value with an LF inside it does not match
GMCP_MESSAGE_REGEX_search(data) ==
    LET text == lstrip(data, BYTES_WHITESPACE)
        end == package_end(text, 1)
        value == strip(Tail_from(text, end), BYTES_WHITESPACE)
    IN [matched |-> end > 1 /\ \A i \in 1..Len(value) : value[i] # LF,
        package |-> SubSeq(text, 1, end - 1),
        value |-> value]

core_hello == <<99, 111, 114, 101, 46, 104, 101, 108, 108, 111>>
Core_Hello == <<67, 111, 114, 101, 46, 72, 101, 108, 108, 111>>
unknown == <<117, 110, 107, 110, 111, 119, 110>>
version_0_0 == <<48, 46, 48>>

\* json.dumps(self._gmcp_client_info, ensure_ascii=False, separators=(", ", ": "))
\* for strings that need no escape
json_dumps(info) ==
    IF info.keys = {} THEN <<123, 125>>
    ELSE <<123, 34, 99, 108, 105, 101, 110, 116, 34, 58, 32, 34>> \o info.client
         \o <<34, 44, 32, 34, 118, 101, 114, 115, 105, 111, 110, 34, 58, 32, 34>> \o info.version \o <<34, 125>>

\* a dict by its keys and their values; the empty dict is also what the
\* constructor makes of gmcp_client_info=None
EmptyDict == [keys |-> {}, client |-> <<>>, version |-> <<>>]
ClientInfos == {[keys |-> {"client", "version"}, client |-> <<99>>, version |-> <<49>>]}

JSONDecodeError == "JSONDecodeError"
AttributeError == "AttributeError: 'list' object has no attribute 'get'"

\* json.loads(value) for the values the peers of this model send: the
\* objects json_dumps writes, {"client": "c"}, the array [] and text that is
\* no JSON (the empty value included)
json_loads(value) ==
    IF \E info \in ClientInfos : value = json_dumps(info)
    THEN [kind |-> "object",
          object |-> CHOOSE info \in ClientInfos : value = json_dumps(info)]
    ELSE IF value = <<123, 125>>
    THEN [kind |-> "object", object |-> EmptyDict]
    ELSE IF value = <<123, 34, 99, 108, 105, 101, 110, 116, 34, 58, 32, 34, 99, 34, 125>>
    THEN [kind |-> "object", object |-> [keys |-> {"client"}, client |-> <<99>>, version |-> <<>>]]
    ELSE IF value = <<91, 93>> THEN [kind |-> "array", object |-> EmptyDict]
    ELSE [kind |-> "invalid", object |-> EmptyDict]

\* dict.get(key, default)
get(object, key, default) == IF key \in object.keys THEN object[key] ELSE default

GMCPMixIn_init(is_client, gmcp_client_info) ==
    [is_client |-> is_client,
     gmcp_client_info |-> gmcp_client_info,
     is_gmcp_initialized |-> FALSE,
     state |-> OptionState,
     written |-> <<>>,
     messages |-> <<>>,
     raised |-> ""]

gmcp_send(g, package, json_as_bytes) ==
    [g EXCEPT !.written = @ \o request_negotiation(GMCP, package \o <<32>> \o json_as_bytes)]

gmcp_hello(g) == gmcp_send(g, Core_Hello, json_dumps(g.gmcp_client_info))

on_gmcp_message(g, package, value) ==
    [g EXCEPT !.messages = Append(@, [package |-> package, value |-> value])]

\* the initial Core.Hello on a server
initial_hello(g, loaded) ==
    IF loaded.kind = "invalid" THEN [g EXCEPT !.raised = JSONDecodeError]
    ELSE IF loaded.kind = "array" THEN [g EXCEPT !.raised = AttributeError]
    ELSE [g EXCEPT !.gmcp_client_info =
                       [keys |-> {"client", "version"},
                        client |-> get(loaded.object, "client", unknown),
                        version |-> get(loaded.object, "version", version_0_0)],
                   !.is_gmcp_initialized = TRUE]

on_gmcp(g, data) ==
    IF ~GMCP_MESSAGE_REGEX_search(data).matched THEN g
    ELSE IF ~g.is_client /\ lower(GMCP_MESSAGE_REGEX_search(data).package) = core_hello
    THEN IF g.is_gmcp_initialized THEN g
         ELSE initial_hello(g, json_loads(GMCP_MESSAGE_REGEX_search(data).value))
    ELSE on_gmcp_message(g, lower(GMCP_MESSAGE_REGEX_search(data).package),
                         GMCP_MESSAGE_REGEX_search(data).value)

\* on_option_enabled that sends a Core.Supports.Set before the Hello
GMCP_on_option_enabled_hello_second(g, option) ==
    IF option = GMCP /\ g.is_client
    THEN [gmcp_hello(gmcp_send(g, <<67, 111, 114, 101, 46, 83, 117, 112, 112, 111, 114, 116, 115, 46, 83, 101, 116>>, <<91, 93>>))
              EXCEPT !.is_gmcp_initialized = TRUE]
    ELSE g

GMCP_on_option_enabled(g, option) ==
    IF option = GMCP /\ g.is_client
    THEN [gmcp_hello(g) EXCEPT !.is_gmcp_initialized = TRUE]
    ELSE g

\* the callbacks of a negotiation result r, after its bytes were written;
\* on_enable_local, on_enable_remote, on_disable_local and on_disable_remote
\* only log for option GMCP
GMCP_after_negotiation(g, r) ==
    LET h == [g EXCEPT !.state = r.s, !.written = @ \o r.written, !.raised = r.raised]
    IN IF \E i \in 1..Len(r.calls) : r.calls[i] = "on_option_enabled"
       THEN GMCP_on_option_enabled(h, GMCP)
       ELSE h

\* on_enable_local and on_enable_remote return True for option GMCP
GMCP_on_command(g, command) ==
    GMCP_after_negotiation(g, on_command(g.state, command, GMCP, TRUE))

\* on_connection_made: a server offers GMCP
GMCP_on_connection_made(g) ==
    IF g.is_client THEN g ELSE GMCP_after_negotiation(g, will(g.state, GMCP))

-----------------------------------------------------------------------------
(* SpecGMCP: a handler with GMCPMixIn is constructed as client or server    *)
(* and connected; the application may ask for the option itself with        *)
(* do(GMCP) or will(GMCP), and the peer sends negotiation commands for      *)
(* option GMCP and GMCP subnegotiations with the payloads of GMCPPayloads.  *)
(* gmcp_log holds one entry per call: the handler before it and after it.   *)

MaxGMCPCalls == 4

GMCPPayloads ==
    {Core_Hello \o <<32>> \o <<123, 34, 99, 108, 105, 101, 110, 116, 34, 58, 32, 34, 99, 34, 44, 32, 34, 118, 101, 114, 115, 105, 111, 110, 34, 58, 32, 34, 49, 34, 125>>,   \* Core.Hello {"client": "c", "version": "1"}
     core_hello \o <<32, 123, 125, 32>>,            \* core.hello {} and a space
     Core_Hello \o <<32>> \o <<123, 34, 99, 108, 105, 101, 110, 116, 34, 58, 32, 34, 99, 34, 125>>,   \* Core.Hello {"client": "c"}
     Core_Hello,                                    \* Core.Hello without a value
     Core_Hello \o <<32, 91, 93>>,                  \* Core.Hello []
     <<32, 67, 104, 97, 114, 46, 78, 97, 109, 101, 32, 32, 49, 32>>,    \* Char.Name 1
     <<67, 104, 97, 114, 46, 78, 97, 109, 101, 32, 91, 49, 44, 10, 50, 93>>,      \* Char.Name [1, LF 2]
     <<42, 42, 106, 117, 110, 107, 42, 42>>}        \* **junk**

GMCPStart ==
    /\ gmcp = GMCPMixIn_init(TRUE, EmptyDict)
    /\ gmcp_phase = "new"
    /\ gmcp_log = <<>>

GMCPCall(name, argument, after) ==
    /\ Len(gmcp_log) < MaxGMCPCalls
    /\ gmcp' = after
    /\ gmcp_log' = Append(gmcp_log, [name |-> name, argument |-> argument,
                                     before |-> gmcp, after |-> after])

GMCPBegin == [gmcp EXCEPT !.written = <<>>, !.messages = <<>>, !.raised = ""]

GMCPConstruct(is_client, gmcp_client_info) ==
    /\ gmcp_phase = "new"
    /\ gmcp_phase' = "constructed"
    /\ gmcp' = GMCPMixIn_init(is_client, gmcp_client_info)
    /\ UNCHANGED gmcp_log
    /\ UNCHANGED beyondGMCP

GMCPConnectionMade ==
    /\ gmcp_phase = "constructed"
    /\ gmcp_phase' = "connected"
    /\ GMCPCall("on_connection_made", <<>>, GMCP_on_connection_made(GMCPBegin))
    /\ UNCHANGED beyondGMCP

GMCPApplicationAsks(name) ==
    /\ gmcp_phase = "connected"
    /\ GMCPCall(name, <<>>,
                GMCP_after_negotiation(GMCPBegin, IF name = "do" THEN do(gmcp.state, GMCP)
                                                  ELSE will(gmcp.state, GMCP)))
    /\ UNCHANGED gmcp_phase
    /\ UNCHANGED beyondGMCP

GMCPReceiveCommand(command) ==
    /\ gmcp_phase = "connected"
    /\ GMCPCall("on_command", <<command>>, GMCP_on_command(GMCPBegin, command))
    /\ UNCHANGED gmcp_phase
    /\ UNCHANGED beyondGMCP

GMCPReceiveMessage(data) ==
    /\ gmcp_phase = "connected"
    /\ GMCPCall("on_gmcp", data, on_gmcp(GMCPBegin, data))
    /\ UNCHANGED gmcp_phase
    /\ UNCHANGED beyondGMCP

GMCPNext ==
    \/ \E is_client \in BOOLEAN, info \in ClientInfos \cup {EmptyDict} :
           GMCPConstruct(is_client, info)
    \/ GMCPConnectionMade
    \/ \E name \in {"do", "will"} : GMCPApplicationAsks(name)
    \/ \E command \in NEGOTIATION_BYTES : GMCPReceiveCommand(command)
    \/ \E data \in GMCPPayloads : GMCPReceiveMessage(data)

-----------------------------------------------------------------------------
(* naws.py: Dimensions and NAWSMixIn.  Dimensions are a pair <<width,       *)
(* height>>; a handler n holds its role, _naws_dimensions, the bytes it     *)
(* wrote and the exception its last call raised.                            *)

UINT16_MAX == 65535
NAWS_SEQUENCE_LENGTH == 4

ValueError == "ValueError"

\* Dimensions.__post_init__
Dimensions_valid(value) ==
    /\ 0 <= value[1] /\ value[1] <= UINT16_MAX
    /\ 0 <= value[2] /\ value[2] <= UINT16_MAX

\* int.to_bytes(value, length=2, byteorder="little") in place of "big"
int_to_bytes_little_endian(value) == <<value % 256, value \div 256>>

\* int.to_bytes(value, length=2, byteorder="big", signed=False)
int_to_bytes(value) == <<value \div 256, value % 256>>

\* int.from_bytes(data, byteorder="big", signed=False)
int_from_bytes(data) == data[1] * 256 + data[2]

Dimensions_to_bytes(value) == int_to_bytes(value[1]) \o int_to_bytes(value[2])

Dimensions_from_bytes(data) == <<int_from_bytes(SubSeq(data, 1, 2)), int_from_bytes(SubSeq(data, 3, 4))>>

NAWSMixIn_init(is_client) ==
    [is_client |-> is_client, naws_dimensions |-> <<0, 0>>, written |-> <<>>, raised |-> ""]

\* the setter of naws_dimensions
set_naws_dimensions(n, value) ==
    IF ~Dimensions_valid(value) THEN [n EXCEPT !.raised = ValueError]
    ELSE IF n.is_client
    THEN [n EXCEPT !.naws_dimensions = value,
                   !.written = @ \o request_negotiation(NAWS, Dimensions_to_bytes(value))]
    ELSE [n EXCEPT !.naws_dimensions = value]

on_naws(n, data) ==
    IF n.is_client THEN n
    ELSE IF Len(data) # NAWS_SEQUENCE_LENGTH THEN n
    ELSE set_naws_dimensions(n, Dimensions_from_bytes(data))

\* on_subnegotiation for each subnegotiation the Telnet layer completed
RECURSIVE NAWS_dispatch(_, _)
NAWS_dispatch(n, events) ==
    IF events = <<>> THEN n
    ELSE NAWS_dispatch(IF Head(events).t = "subnegotiation" /\ Head(events).o = NAWS
                       THEN on_naws(n, Head(events).d)
                       ELSE n,
                       Tail(events))

-----------------------------------------------------------------------------
(* SpecNAWS: the application of a client sets naws_dimensions to widths and *)
(* heights of WindowSizes, at most MaxNAWSSets times; what the client       *)
(* writes travels to a server, which receives it in arrival order in chunks *)
(* that end anywhere.  naws_sets records each set and the bytes it wrote.   *)
(* The peers send nothing else, so that the Telnet layer of the server      *)
(* completes NAWS subnegotiations only.                                     *)

MaxNAWSSets == 1
MaxNAWSChunk == 4

\* 0, the example 80 x 25, the bytes SE and IAC in either half, the largest
\* value, and one on either side of the range
WindowSizes == {-1, 0, 25, 80, 240, 255, 65280, 65520, 65535, 65536}

NAWSStart ==
    /\ naws_client = NAWSMixIn_init(TRUE)
    /\ naws_server = NAWSMixIn_init(FALSE)
    /\ naws_telnet = TelnetProtocol_init
    /\ naws_wire = <<>>
    /\ naws_sets = <<>>

NAWSClientSets(width, height) ==
    /\ Len(naws_sets) < MaxNAWSSets
    /\ naws_client' = set_naws_dimensions([naws_client EXCEPT !.written = <<>>, !.raised = ""],
                                          <<width, height>>)
    /\ naws_wire' = naws_wire \o naws_client'.written
    /\ naws_sets' = Append(naws_sets, [value |-> <<width, height>>,
                                       written |-> naws_client'.written,
                                       raised |-> naws_client'.raised])
    /\ UNCHANGED <<naws_server, naws_telnet>>
    /\ UNCHANGED beyondNAWS

NAWSServerReceives(k) ==
    /\ k <= Len(naws_wire)
    /\ naws_telnet' = Telnet_on_data_received([naws_telnet EXCEPT !.out = <<>>],
                                              SubSeq(naws_wire, 1, k))
    /\ naws_server' = NAWS_dispatch(naws_server, naws_telnet'.out)
    /\ naws_wire' = Tail_from(naws_wire, k + 1)
    /\ UNCHANGED <<naws_client, naws_sets>>
    /\ UNCHANGED beyondNAWS

NAWSNext ==
    \/ \E width \in WindowSizes, height \in WindowSizes : NAWSClientSets(width, height)
    \/ \E k \in 1..MaxNAWSChunk : NAWSServerReceives(k)

-----------------------------------------------------------------------------
(* SpecOrder: the peer sends items of StreamItems, at most MaxItems of      *)
(* them: application text, an escaped IAC, a one-byte command, a            *)
(* negotiation and a subnegotiation.  A TelnetProtocol handler receives the *)
(* bytes in arrival order, in chunks that end anywhere; order_telnet.out    *)
(* holds, in call order, what it gave to its receiver and the callbacks it  *)
(* invoked.  Each item is the bytes on the wire and the event they stand    *)
(* for.                                                                     *)

MaxItems == 3
MaxOrderChunk == 4

StreamItems ==
    {[wire |-> <<65>>, event |-> AppEvent(<<65>>)],
     [wire |-> <<IAC, IAC>>, event |-> AppEvent(<<IAC>>)],
     [wire |-> <<IAC, NOP>>, event |-> CommandEvent(NOP, None)],
     [wire |-> <<IAC, WILL, ECHO>>, event |-> CommandEvent(WILL, ECHO)],
     [wire |-> <<IAC, SB, ECHO, 66, IAC, SE>>, event |-> SubnegotiationEvent(ECHO, <<66>>)]}

OrderStart ==
    /\ order_items = <<>>
    /\ order_wire = <<>>
    /\ order_telnet = TelnetProtocol_init

OrderPeerSends(item) ==
    /\ Len(order_items) < MaxItems
    /\ order_items' = Append(order_items, item.event)
    /\ order_wire' = order_wire \o item.wire
    /\ UNCHANGED order_telnet
    /\ UNCHANGED beyondOrder

OrderReceive(n) ==
    /\ n <= Len(order_wire)
    /\ order_telnet' = Telnet_on_data_received(order_telnet, SubSeq(order_wire, 1, n))
    /\ order_wire' = Tail_from(order_wire, n + 1)
    /\ UNCHANGED order_items
    /\ UNCHANGED beyondOrder

OrderNext ==
    \/ \E item \in StreamItems : OrderPeerSends(item)
    \/ \E n \in 1..MaxOrderChunk : OrderReceive(n)

-----------------------------------------------------------------------------
(* SpecLink: two TelnetProtocol endpoints A and B joined by two lossless,   *)
(* ordered channels.  Each endpoint is the OptionState of option ECHO, what *)
(* its policy callbacks on_enable_local and on_enable_remote answer, and    *)
(* the exception a dispatch raised.  The applications call will, wont, do   *)
(* and dont, at most MaxLinkCalls times in all, will and do only on an      *)
(* endpoint whose policy accepts; a channel delivers its oldest command to  *)
(* the other endpoint, whose replies enter the opposite channel.            *)

MaxLinkCalls == 3

Endpoints == {"A", "B"}
Other(e) == IF e = "A" THEN "B" ELSE "A"

\* what on_enable_local and on_enable_remote of an endpoint answer
Policies == [local : BOOLEAN, remote : BOOLEAN]

Endpoint(policy) == [state |-> OptionState, policy |-> policy, raised |-> ""]

LinkStart ==
    /\ link = [e \in Endpoints |-> Endpoint([local |-> FALSE, remote |-> FALSE])]
    /\ channel = [e \in Endpoints |-> <<>>]
    /\ link_phase = "new"
    /\ link_calls = 0
    /\ link_written = 0

LinkConstruct(policy_a, policy_b) ==
    /\ link_phase = "new"
    /\ link_phase' = "joined"
    /\ link' = [e \in Endpoints |-> Endpoint(IF e = "A" THEN policy_a ELSE policy_b)]
    /\ UNCHANGED <<channel, link_calls, link_written>>
    /\ UNCHANGED beyondLink

\* endpoint e ends a call or dispatch with result r: what it wrote enters
\* the channel that leaves e
LinkResult(e, r) ==
    /\ link' = [link EXCEPT ![e].state = r.s,
                            ![e].raised = IF r.raised # "" THEN r.raised ELSE @]
    /\ link_written' = link_written + (IF r.written = <<>> THEN 0 ELSE 1)

LinkCall(e, name) ==
    /\ link_phase = "joined"
    /\ link_calls < MaxLinkCalls
    /\ name = "will" => link[e].policy.local
    /\ name = "do" => link[e].policy.remote
    /\ link_calls' = link_calls + 1
    /\ LET r == CASE name = "will" -> will(link[e].state, ECHO)
                  [] name = "wont" -> wont(link[e].state, ECHO)
                  [] name = "do" -> do(link[e].state, ECHO)
                  [] name = "dont" -> dont(link[e].state, ECHO)
       IN /\ LinkResult(e, r)
          /\ channel' = [channel EXCEPT ![e] = @ \o r.written]
    /\ UNCHANGED link_phase
    /\ UNCHANGED beyondLink

\* the channel that leaves the other endpoint delivers IAC, a command and
\* the option to e
LinkDeliver(e) ==
    /\ channel[Other(e)] # <<>>
    /\ LET command == channel[Other(e)][2]
           r == on_command(link[e].state, command, channel[Other(e)][3],
                           IF command = WILL THEN link[e].policy.remote
                                             ELSE link[e].policy.local)
       IN /\ LinkResult(e, r)
          /\ channel' = [channel EXCEPT ![Other(e)] = Tail_from(@, 4),
                                        ![e] = @ \o r.written]
    /\ UNCHANGED <<link_phase, link_calls>>
    /\ UNCHANGED beyondLink

LinkNext ==
    \/ \E policy_a \in Policies, policy_b \in Policies : LinkConstruct(policy_a, policy_b)
    \/ \E e \in Endpoints, name \in {"will", "wont", "do", "dont"} : LinkCall(e, name)
    \/ \E e \in Endpoints : LinkDeliver(e)

-----------------------------------------------------------------------------
(* SpecLifecycle: connect, register, unregister and disconnect called on a  *)
(* Manager in any order; returned is the name of the call that returned     *)
(* last.                                                                    *)

LifecycleStart == returned = "__init__"

LifecycleConnect ==
    /\ connect
    /\ returned' = "connect"
    /\ UNCHANGED beyondLifecycle

LifecycleRegister(class) ==
    /\ register(class)
    /\ returned' = "register"
    /\ UNCHANGED beyondLifecycle

LifecycleUnregister(instance) ==
    /\ unregister(instance)
    /\ returned' = "unregister"
    /\ UNCHANGED beyondLifecycle

LifecycleDisconnect ==
    /\ disconnect
    /\ returned' = "disconnect"
    /\ UNCHANGED beyondLifecycle

LifecycleNext ==
    \/ LifecycleConnect
    \/ \E class \in HandlerClasses : LifecycleRegister(class)
    \/ \E instance \in Instances : LifecycleUnregister(instance)
    \/ LifecycleDisconnect

-----------------------------------------------------------------------------
(* SpecClose: a Manager whose chain holds an MPIProtocol and an XMLProtocol *)
(* handler in either order, or one of them, with the worker thread of an    *)
(* edit message, while the main context calls Manager.disconnect.           *)
(* disconnect and the unregister calls it makes run line by line in the     *)
(* main context (pc["main"]), the worker's Manager.write line by line as in *)
(* SpecThreads; disconnected says that disconnect has returned.             *)

XMLProtocol == 2
CloseClasses == {MPIProtocol, XMLProtocol}

CloseStart == disconnected = FALSE

InChain(class) == \E i \in 1..Len(handlers) : handler_class[handlers[i]] = class

\* the worker thread has been started and has not ended
is_alive == pc["worker"] \notin {"unborn", "done"}

CloseConnect ==
    /\ pc["main"] = "idle"
    /\ ~disconnected
    /\ connect
    /\ UNCHANGED <<threadVars, disconnected>>
    /\ UNCHANGED beyondClose

\* register(class); on_connection_made of MPIProtocol writes the identify
\* message, that of XMLProtocol writes nothing
CloseRegister(class) ==
    /\ pc["main"] = "idle"
    /\ ~disconnected
    /\ ~InChain(class)
    /\ Cardinality(Constructed) < MaxInstances
    /\ LET instance == Cardinality(Constructed) + 1 IN
        /\ handler_class' = [handler_class EXCEPT ![instance] = class]
        /\ receiver' = register_wire(receiver, handlers, instance)
        /\ handlers' = Append(handlers, instance)
        /\ made' = Append(made, instance)
        /\ last_call' = [op |-> "register", index |-> Len(handlers) + 1, raised |-> ""]
        /\ IF class = MPIProtocol
           THEN LET w == write(is_connected, Append(handlers, instance), write_buffer,
                               <<MPIIdentify>>)
                IN /\ write_buffer' = w.write_buffer
                   /\ sent' = Emit(sent, w.written)
                   /\ issued' = issued \cup {MPIIdentify}
           ELSE UNCHANGED <<write_buffer, sent, issued>>
    /\ UNCHANGED <<is_connected, read_buffer, delivered, lost, pc, frame, disconnected>>
    /\ UNCHANGED beyondClose

\* the transport passes an edit message to a connected Manager whose chain
\* holds the MPI handler
CloseParse ==
    /\ is_connected
    /\ InChain(MPIProtocol)
    /\ ParseEditRequest

\* the main context calls Manager.disconnect()
MainCallsDisconnect ==
    /\ pc["main"] = "idle"
    /\ ~disconnected
    /\ pc' = [pc EXCEPT !["main"] = "disconnect_122"]
    /\ UNCHANGED <<managerVars, frame, issued, disconnected>>
    /\ UNCHANGED beyondClose

\* Manager.disconnect and Manager.unregister in the main context, one line
\* per step (the lines of unregister that only the main context can
\* interleave with are one step); thread.join() returns when the worker is
\* not alive
DisconnectLine ==
    /\ \/ /\ pc["main"] = "disconnect_122"
          /\ pc' = [pc EXCEPT !["main"] = IF is_connected THEN "disconnect_123" ELSE "idle"]
          /\ disconnected' = ~is_connected
          /\ UNCHANGED <<is_connected, handlers, receiver, lost, last_call, frame>>
       \/ /\ pc["main"] = "disconnect_123"
          /\ pc' = [pc EXCEPT !["main"] = IF handlers # <<>> THEN "unregister_206"
                                          ELSE "disconnect_125"]
          /\ UNCHANGED <<is_connected, handlers, receiver, lost, last_call, frame,
                         disconnected>>
       \/ /\ pc["main"] = "unregister_206"
          /\ handlers' = RemoveAt(handlers, 1)
          /\ receiver' = unregister_rewire(receiver, handlers, 1)
          /\ frame' = [frame EXCEPT !["main"] = <<handlers[1]>>]
          /\ pc' = [pc EXCEPT !["main"] = "unregister_210"]
          /\ UNCHANGED <<is_connected, lost, last_call, disconnected>>
       \/ /\ pc["main"] = "unregister_210"
          /\ handler_class[frame["main"][1]] = MPIProtocol => ~is_alive
          /\ lost' = Append(lost, frame["main"][1])
          /\ last_call' = [op |-> "unregister", index |-> 1, raised |-> ""]
          /\ pc' = [pc EXCEPT !["main"] = "disconnect_123"]
          /\ UNCHANGED <<is_connected, handlers, receiver, frame, disconnected>>
       \/ /\ pc["main"] = "disconnect_125"
          /\ is_connected' = FALSE
          /\ disconnected' = TRUE
          /\ pc' = [pc EXCEPT !["main"] = "idle"]
          /\ UNCHANGED <<handlers, receiver, lost, last_call, frame>>
    /\ UNCHANGED <<read_buffer, write_buffer, handler_class, sent, delivered, made, issued>>
    /\ UNCHANGED beyondClose

CloseNext ==
    \/ CloseConnect
    \/ \E class \in CloseClasses : CloseRegister(class)
    \/ CloseParse
    \/ WorkerCallsWrite
    \/ WriteLine("worker")
    \/ MainCallsDisconnect
    \/ DisconnectLine

-----------------------------------------------------------------------------
(* SpecSentinel: a peer offers MCCP1 or MCCP2 (or both, the second offer is *)
(* refused), sends plain text, and sends the activation sentinel of either  *)
(* version once; after the sentinel it sends nothing.  The transport hands  *)
(* the handler of SpecMCCP the bytes in arrival order, in chunks that end   *)
(* anywhere.  sentinel_sent is the option whose sentinel the peer sent.     *)

MaxSentinelMessages == 4
MaxSentinelChunk == 8
SentinelMessages == {<<IAC, WILL, MCCP1>>, <<IAC, WILL, MCCP2>>, <<65>>}

SentinelStart == sentinel_sent = None

SentinelPeerPuts(bytes) ==
    /\ sentinel_sent = None
    /\ peer_sent < MaxSentinelMessages
    /\ peer_sent' = peer_sent + 1
    /\ wire' = wire \o bytes
    /\ UNCHANGED <<compression_enabled, mccp_version, compressed_input_buffer, decompressor,
                   mccp_telnet, mccp_option_states, mccp_raised>>
    /\ UNCHANGED beyondSentinel

SentinelPeerSends(message) ==
    /\ SentinelPeerPuts(message)
    /\ UNCHANGED sentinel_sent

SentinelPeerActivates(option) ==
    /\ SentinelPeerPuts(Sentinel(option))
    /\ sentinel_sent' = option

\* the transport calls on_data_received with the next n bytes
SentinelReceive(n) ==
    /\ n <= Len(wire)
    /\ MCCPBecomes(MCCP_on_data_received(MCCPHandler, SubSeq(wire, 1, n)))
    /\ wire' = Tail_from(wire, n + 1)
    /\ UNCHANGED <<peer_sent, sentinel_sent>>
    /\ UNCHANGED beyondSentinel

SentinelNext ==
    \/ \E message \in SentinelMessages : SentinelPeerSends(message)
    \/ \E option \in MCCPOptions : SentinelPeerActivates(option)
    \/ \E n \in 1..MaxSentinelChunk : SentinelReceive(n)

-----------------------------------------------------------------------------
(* SpecModes: the game sends opening and closing tags, at most MaxModeTags  *)
(* of them, well nested or not, and XMLProtocol receives each tag in a call *)
(* of its own.  The handler and the count of tags are those of SpecXML.     *)

MaxModeTags == 4
ModeTagNames ==
    {<<114, 111, 111, 109>>,                   \* room
     <<110, 97, 109, 101>>,                    \* name
     <<112, 114, 111, 109, 112, 116>>,         \* prompt
     <<109, 97, 103, 105, 99>>,                \* magic
     <<110, 111, 110, 101>>}                   \* none

OpeningTag(tag_name) == <<60>> \o tag_name \o <<62>>
ClosingTag(tag_name) == <<60, 47>> \o tag_name \o <<62>>

ModesGameSends(tag) ==
    /\ xml.output_format # NotConstructed
    /\ xml_sent < MaxModeTags
    /\ xml_sent' = xml_sent + 1
    /\ xml' = XML_on_data_received(xml, tag)
    /\ xml_received' = xml_received \o tag
    /\ UNCHANGED xml_wire
    /\ UNCHANGED beyondXML

ModesNext ==
    \/ \E output_format \in OUTPUT_FORMATS : XMLConstruct(output_format)
    \/ \E tag_name \in ModeTagNames : ModesGameSends(OpeningTag(tag_name))
    \/ \E tag_name \in ModeTagNames : ModesGameSends(ClosingTag(tag_name))

-----------------------------------------------------------------------------
(* SpecBackToBack: the peer sends well-formed MPI messages with commands of *)
(* command_map one after the other, at most MaxBackMessages of them, to the *)
(* handler of SpecMPI.  A message brings its own leading LF only when the   *)
(* last byte of the stream so far is not an LF: after a body that ends in   *)
(* LF the next sentinel follows that LF directly.  The handler receives the *)
(* bytes in arrival order, in chunks that end anywhere.  back_stream is the *)
(* bytes sent so far and back_threads the workers that are to be started.   *)

MaxBackMessages == 2
MaxBackChunk == 8

\* digits and bodies: "1" and x, "2" and x LF
BackLengthsAndBodies == {<<<<49>>, <<120>>>>, <<<<50>>, <<120, LF>>>>}

BackStart ==
    /\ back_stream = <<>>
    /\ back_threads = <<>>

EndsWithLF(data) == data # <<>> /\ data[Len(data)] = LF

BackPeerSends(cmd, lb) ==
    /\ mpi_sent < MaxBackMessages
    /\ mpi_sent' = mpi_sent + 1
    /\ LET bytes == IF EndsWithLF(back_stream)
                    THEN Tail(Message(cmd, lb[1], lb[2]))
                    ELSE Message(cmd, lb[1], lb[2])
       IN /\ mpi_wire' = mpi_wire \o bytes
          /\ back_stream' = back_stream \o bytes
    /\ back_threads' = Append(back_threads, ThreadEvent(cmd, lb[2]))
    /\ UNCHANGED <<mpi, mpi_received>>
    /\ UNCHANGED beyondBackToBack

\* the transport calls on_data_received with the next n bytes
BackReceive(n) ==
    /\ n <= Len(mpi_wire)
    /\ mpi' = [MPI_on_data_received(mpi, SubSeq(mpi_wire, 1, n)) EXCEPT !.out = Joined(@)]
    /\ mpi_received' = mpi_received \o SubSeq(mpi_wire, 1, n)
    /\ mpi_wire' = Tail_from(mpi_wire, n + 1)
    /\ UNCHANGED <<mpi_sent, back_stream, back_threads>>
    /\ UNCHANGED beyondBackToBack

BackToBackNext ==
    \/ \E cmd \in command_map, lb \in BackLengthsAndBodies : BackPeerSends(cmd, lb)
    \/ \E n \in 1..MaxBackChunk : BackReceive(n)

-----------------------------------------------------------------------------
(* CharsetMixIn (charset.py).  A charset name is a byte string;             *)
(* codecs_lookup gives the canonical codec name of the names the model      *)
(* uses, as codecs.lookup(name).name does, and LookupError for the others.  *)

CHARSET == 42
CHARSET_REQUEST == 1
CHARSET_ACCEPTED == 2
CHARSET_REJECTED == 3

LookupError == "LookupError"
US_ASCII == <<85, 83, 45, 65, 83, 67, 73, 73>>
b_ascii == <<97, 115, 99, 105, 105>>
UTF_8 == <<85, 84, 70, 45, 56>>
b_klingon == <<107, 108, 105, 110, 103, 111, 110>>

codecs_lookup(name) ==
    IF lower(name) \in {lower(US_ASCII), b_ascii} THEN "ascii"
    ELSE IF lower(name) = lower(UTF_8) THEN "utf-8"
    ELSE LookupError

\* bytes.split(separator) with a separator of one byte
RECURSIVE split(_, _)
split(data, separator) ==
    IF Find(data, separator) = 0 THEN <<data>>
    ELSE <<SubSeq(data, 1, Find(data, separator) - 1)>>
             \o split(Tail_from(data, Find(data, separator) + 1), separator)

\* the items whose codec is known, without those whose codec an earlier
\* item has
RECURSIVE without_aliases(_, _)
without_aliases(items, names) ==
    IF items = <<>> THEN <<>>
    ELSE IF codecs_lookup(items[1]) = LookupError \/ codecs_lookup(items[1]) \in names
    THEN without_aliases(Tail(items), names)
    ELSE <<items[1]>> \o without_aliases(Tail(items), names \cup {codecs_lookup(items[1])})

\* bytes.split raises ValueError when the separator is empty
parse_supported_charsets(response) ==
    IF response = <<>> THEN [charsets |-> <<>>, raised |-> ValueError]
    ELSE [charsets |-> without_aliases(split(Tail(response), response[1]), {}),
          raised |-> ""]

CharsetMixIn_init ==
    [charsets |-> <<US_ASCII>>, charset |-> US_ASCII, state |-> OptionState,
     raised |-> "", written |-> <<>>]

\* a negotiate_charset that requests the name it is given, supported or not
negotiate_charset_any(c, name) ==
    IF codecs_lookup(name) = LookupError THEN c
    ELSE [c EXCEPT !.written = Append(@, SubnegotiationEvent(CHARSET,
                                             <<CHARSET_REQUEST, 59>> \o name))]

\* written is what the endpoint has given to self.write, as the peer's
\* Telnet layer will dispatch it
negotiate_charset(c, name) ==
    IF codecs_lookup(name) = LookupError THEN c
    ELSE IF \E i \in 1..Len(c.charsets) : codecs_lookup(c.charsets[i]) = codecs_lookup(name)
    THEN LET i == CHOOSE i \in 1..Len(c.charsets) :
                      /\ codecs_lookup(c.charsets[i]) = codecs_lookup(name)
                      /\ \A j \in 1..(i - 1) :
                             codecs_lookup(c.charsets[j]) # codecs_lookup(name)
         IN [c EXCEPT !.written = Append(@, SubnegotiationEvent(CHARSET,
                                            <<CHARSET_REQUEST, 59>> \o c.charsets[i]))]
    ELSE c

on_charset(c, data) ==
    IF data # <<>> /\ data[1] = CHARSET_REQUEST
    THEN LET supported == parse_supported_charsets(Tail(data)) IN
         IF supported.raised # "" THEN [c EXCEPT !.raised = supported.raised]
         ELSE negotiate_charset([c EXCEPT !.charsets = supported.charsets], c.charset)
    ELSE IF data # <<>> /\ data[1] = CHARSET_ACCEPTED
    THEN [c EXCEPT !.charset = Tail(data)]
    ELSE IF data # <<>> /\ data[1] = CHARSET_REJECTED
    THEN c
    ELSE LET r == wont(c.state, CHARSET) IN
         [c EXCEPT !.state = r.s,
                   !.written = IF r.written = <<>> THEN @
                               ELSE Append(@, CommandEvent(WONT, CHARSET))]

\* the Telnet layer of a CharsetMixIn endpoint dispatches what it received
Charset_dispatch(c, event) ==
    IF event.t = "subnegotiation"
    THEN IF event.o = CHARSET THEN on_charset(c, event.d) ELSE c
    ELSE LET r == on_command(c.state, event.c, event.o, event.c = DO /\ event.o = CHARSET)
         IN [c EXCEPT !.state = r.s,
                      !.raised = IF r.raised # "" THEN r.raised ELSE @,
                      !.written = IF r.written = <<>> THEN @
                                  ELSE Append(@, CommandEvent(r.written[2], r.written[3]))]

-----------------------------------------------------------------------------
(* SpecCharset: two endpoints that use CharsetMixIn, joined by two lossless *)
(* ordered channels.  The applications call negotiate_charset, at most      *)
(* MaxCharsetCalls times in all; a channel delivers its oldest              *)
(* subnegotiation to the other endpoint, whose answer enters the opposite   *)
(* channel, and every subnegotiation sent is delivered in the end.          *)
(* charset_written counts the CHARSET subnegotiations written, up to        *)
(* MaxCharsetWritten.                                                       *)

MaxCharsetCalls == 3
MaxCharsetWritten == 8
CharsetNames == {US_ASCII, b_ascii, UTF_8, b_klingon}

CharsetStart ==
    /\ charset_end = [e \in Endpoints |-> CharsetMixIn_init]
    /\ charset_channel = [e \in Endpoints |-> <<>>]
    /\ charset_calls = 0
    /\ charset_written = 0

\* endpoint e ends a call as c: what it wrote enters the channel that leaves e
CharsetResult(e, c, arrived) ==
    /\ charset_end' = [charset_end EXCEPT ![e] = [c EXCEPT !.written = <<>>]]
    /\ charset_channel' = [charset_channel EXCEPT ![Other(e)] = Tail_from(@, arrived + 1),
                                                  ![e] = @ \o c.written]
    /\ charset_written' = Min(MaxCharsetWritten, charset_written + Len(c.written))

CharsetCall(e, name) ==
    /\ charset_calls < MaxCharsetCalls
    /\ charset_calls' = charset_calls + 1
    /\ \E c \in {negotiate_charset(charset_end[e], name)} : CharsetResult(e, c, 0)
    /\ UNCHANGED beyondCharset

\* the Telnet layer of e receives the oldest item in flight to it
Charset_received(e) ==
    /\ charset_channel[Other(e)] # <<>>
    /\ \E c \in {Charset_dispatch(charset_end[e], charset_channel[Other(e)][1])} :
           CharsetResult(e, c, 1)
    /\ UNCHANGED charset_calls

CharsetDeliver(e) ==
    /\ Charset_received(e)
    /\ UNCHANGED beyondCharset

CharsetNext ==
    \/ \E e \in Endpoints, name \in CharsetNames : CharsetCall(e, name)
    \/ \E e \in Endpoints : CharsetDeliver(e)

-----------------------------------------------------------------------------
(* The specifications: every component starts in its constructed state; a   *)
(* specification takes the steps of one component.                          *)

Start == ParseStart /\ NegStart /\ ManagerStart /\ MCCPStart
         /\ ThreadsStart /\ MPIStart /\ XMLStart
         /\ RoundTripStart
         /\ ReplayStart
         /\ RegistrationStart
         /\ JoinStart
         /\ StreamStart
         /\ MessageStart
         /\ MarkupStart
         /\ GMCPStart
         /\ NAWSStart
         /\ OrderStart
         /\ LinkStart
         /\ LifecycleStart
         /\ CloseStart
         /\ SentinelStart
         /\ BackStart
         /\ CharsetStart

ParseInit == Start
SpecParse == ParseInit /\ [][ParseNext]_vars

NegInit == Start
SpecNeg == NegInit /\ [][NegNext]_vars

ManagerInit == Start
SpecManager == ManagerInit /\ [][ManagerNext]_vars

MCCPInit == Start
SpecMCCP == MCCPInit /\ [][MCCPNext]_vars

ThreadsInit == Start
SpecThreads == ThreadsInit /\ [][ThreadsNext]_vars

MPIInit == Start
SpecMPI == MPIInit /\ [][MPINext]_vars

XMLInit == Start
SpecXML == XMLInit /\ [][XMLNext]_vars

RoundTripInit == Start
SpecRoundTrip == RoundTripInit /\ [][RoundTripNext]_vars

ReplayInit == Start
SpecReplay == ReplayInit /\ [][ReplayNext]_vars

RegistrationInit == Start
SpecRegistration == RegistrationInit /\ [][RegistrationNext]_vars

JoinInit == Start
SpecJoin == JoinInit /\ [][JoinNext]_vars

StreamInit == Start
SpecStream == StreamInit /\ [][StreamNext]_vars

MessageInit == Start
SpecMessage == MessageInit /\ [][MessageNext]_vars

MarkupInit == Start
SpecMarkup == MarkupInit /\ [][MarkupNext]_vars

GMCPInit == Start
SpecGMCP == GMCPInit /\ [][GMCPNext]_vars

NAWSInit == Start
SpecNAWS == NAWSInit /\ [][NAWSNext]_vars

OrderInit == Start
SpecOrder == OrderInit /\ [][OrderNext]_vars

LinkInit == Start
SpecLink == LinkInit /\ [][LinkNext]_vars

LifecycleInit == Start
SpecLifecycle == LifecycleInit /\ [][LifecycleNext]_vars

CloseInit == Start
SpecClose == CloseInit /\ [][CloseNext]_vars

SentinelInit == Start
SpecSentinel == SentinelInit /\ [][SentinelNext]_vars

ModesInit == Start
SpecModes == ModesInit /\ [][ModesNext]_vars

BackToBackInit == Start
SpecBackToBack == BackToBackInit /\ [][BackToBackNext]_vars

CharsetInit == Start
SpecCharset == CharsetInit /\ [][CharsetNext]_vars
                   /\ WF_charsetVars(\E e \in Endpoints : Charset_received(e))

-----------------------------------------------------------------------------
(* Telnet byte parser: claims *)

\* C2: fed one byte per call or in a single call, a byte sequence yields the
\* same concatenated application bytes and the same ordered on_command and
\* on_subnegotiation dispatches (compared when both handlers are back in
\* state DATA, so that neither still holds a byte of the sequence back).
SameOutputInAnyChunking ==
    (phase = "done" /\ pOne.state = "DATA" /\ pAll.state = "DATA") =>
        /\ AppBytes(pOne.out) = AppBytes(pAll.out)
        /\ Dispatches(pOne.out) = Dispatches(pAll.out)

-----------------------------------------------------------------------------
(* Telnet option negotiation: claims *)

Misuse(step) ==
    \/ step.pre.us.negotiating
    \/ step.pre.him.negotiating
    \/ step.kind = "will" /\ step.pre.us.enabled
    \/ step.kind = "wont" /\ ~step.pre.us.enabled
    \/ step.kind = "do" /\ step.pre.him.enabled
    \/ step.kind = "dont" /\ ~step.pre.him.enabled

MisuseWritesNothing ==
    (log # <<>> /\ Last.kind \in {"will", "wont", "do", "dont"} /\ Misuse(Last)) =>
        /\ Last.written = <<>>
        /\ option_states[Last.option] = Last.pre

WillWhilePeerNegotiates ==
    /\ log # <<>>
    /\ Last.kind = "will"
    /\ Last.pre.him.negotiating
    /\ ~Last.pre.us.enabled

\* C10: from the initial state of an option, will(o) writes exactly
\* IAC WILL o; when the peer then sends IAC DO o, us.enabled is true and
\* us.negotiating false, on_option_enabled(o) was invoked exactly once and
\* nothing more was written.
WillThenDo ==
    /\ Len(log) = 2
    /\ log[1].kind = "will"
    /\ log[1].pre = OptionState
    /\ log[2].kind = "DO"
    /\ log[2].option = log[1].option

WillThenDoEnables ==
    /\ (log # <<>> /\ Last.kind = "will" /\ Last.pre = OptionState) =>
           Last.written = <<IAC, WILL, Last.option>>
    /\ WillThenDo =>
           /\ option_states[Last.option].us = [enabled |-> TRUE, negotiating |-> FALSE]
           /\ Count(Last.calls, "on_option_enabled") = 1
           /\ Last.written = <<>>
           /\ Last.raised = ""

\* C11: WILL o (DO o) received while the him (us) perspective is neither
\* enabled nor negotiating asks on_enable_remote (on_enable_local) once and
\* writes exactly one reply: IAC DO o (IAC WILL o) with the perspective
\* enabled and on_option_enabled called once when the policy accepts,
\* IAC DONT o (IAC WONT o) with the state unchanged when it refuses; received
\* while the perspective is enabled and not negotiating it writes nothing and
\* changes nothing.
Neither(perspective) == ~perspective.enabled /\ ~perspective.negotiating
Settled(perspective) == perspective.enabled /\ ~perspective.negotiating

EnableRequestIsAnsweredOnce ==
    log # <<>> =>
        /\ (Last.kind = "WILL" /\ Neither(Last.pre.him)) =>
               /\ Last.calls[1] = "on_enable_remote"
               /\ Count(Last.calls, "on_enable_remote") = 1
               /\ Last.raised = ""
               /\ IF Last.answer = "True"
                  THEN /\ Last.written = <<IAC, DO, Last.option>>
                       /\ option_states[Last.option] = [Last.pre EXCEPT !.him.enabled = TRUE]
                       /\ Count(Last.calls, "on_option_enabled") = 1
                  ELSE /\ Last.written = <<IAC, DONT, Last.option>>
                       /\ option_states[Last.option] = Last.pre
                       /\ Count(Last.calls, "on_option_enabled") = 0
        /\ (Last.kind = "DO" /\ Neither(Last.pre.us)) =>
               /\ Last.calls[1] = "on_enable_local"
               /\ Count(Last.calls, "on_enable_local") = 1
               /\ Last.raised = ""
               /\ IF Last.answer = "True"
                  THEN /\ Last.written = <<IAC, WILL, Last.option>>
                       /\ option_states[Last.option] = [Last.pre EXCEPT !.us.enabled = TRUE]
                       /\ Count(Last.calls, "on_option_enabled") = 1
                  ELSE /\ Last.written = <<IAC, WONT, Last.option>>
                       /\ option_states[Last.option] = Last.pre
                       /\ Count(Last.calls, "on_option_enabled") = 0
        /\ ((Last.kind = "WILL" /\ Settled(Last.pre.him))
            \/ (Last.kind = "DO" /\ Settled(Last.pre.us))) =>
               /\ Last.written = <<>>
               /\ Last.calls = <<>>
               /\ option_states[Last.option] = Last.pre

\* an offer the policy accepted, then an offer the policy refused
OfferAcceptedThenOfferRefused ==
    /\ Len(log) = 2
    /\ log[1].kind = "DO" /\ Neither(log[1].pre.us) /\ log[1].answer = "True"
    /\ log[2].kind = "WILL" /\ Neither(log[2].pre.him) /\ log[2].answer = "False"

RefusedAgreementIsFatal ==
    (/\ log # <<>>
     /\ \/ Last.kind = "WILL" /\ Last.pre.him.negotiating /\ ~Last.pre.him.enabled
        \/ Last.kind = "DO" /\ Last.pre.us.negotiating /\ ~Last.pre.us.enabled
     /\ Last.answer = "False")
        => Last.raised = "AssertionError"

-----------------------------------------------------------------------------
(* Manager: claims *)

\* C3: after any sequence of successful register and unregister calls,
\* handlers[i]._receiver is handlers[i+1].on_data_received for every i below
\* the last, and the last handler's _receiver is the application receiver
\* given to the Manager.
ChainIsWired ==
    \A i \in 1..Len(handlers) :
        receiver[handlers[i]] =
            IF i < Len(handlers) THEN handlers[i + 1] ELSE AppReceiver

MiddleHandlerRemoved ==
    /\ last_call.op = "unregister"
    /\ last_call.raised = ""
    /\ last_call.index > 1
    /\ last_call.index <= Len(handlers)

-----------------------------------------------------------------------------
(* MCCP: claims *)

\* C4: in a Telnet handler with the MCCP mix-in, after any received bytes in
\* any chunking, whenever compression_enabled is true the recorded
\* mccp_version is not None and a decompressor object exists.
CompressionHasVersionAndDecompressor ==
    compression_enabled => mccp_version # None /\ decompressor # NoDecompressor

-----------------------------------------------------------------------------
(* Threads: claims *)

\* C5: under every interleaving of the worker thread's write with the main
\* context's write and connect calls, every written message reaches the
\* transport writer exactly once: never twice, and once no Manager call is
\* in progress each message passed to Manager.write is in the writer's
\* input or still in the write buffer, once.
EveryWrittenByteReachesWriterOnce ==
    \A message \in issued :
        /\ Occurrences(message, Flat(sent)) <= 1
        /\ (pc["main"] = "idle" /\ pc["worker"] \in {"unborn", "edit", "done"})
               => Occurrences(message, Flat(sent) \o write_buffer) = 1

-----------------------------------------------------------------------------
(* MPI: claims *)

\* C6, as stated: for every byte sequence that does not contain LF ~$#E,
\* feeding it to on_data_received (from state DATA, in any chunking) forwards
\* exactly that sequence as application bytes and invokes no MPI command.
SentinelFreeInputIsForwarded ==
    ~ContainsSentinel(mpi_received) =>
        /\ AppBytes(mpi.out) = mpi_received
        /\ Dispatches(mpi.out) = <<>>

\* C6, amended: for every received byte sequence that does not contain
\* LF ~$#E, the application bytes forwarded so far followed by the bytes held
\* in _mpi_buffer are exactly the received sequence, and no MPI command is
\* invoked; bytes are held only in state INIT, after a forwarded LF, and they
\* are a proper prefix of ~$#E.
SentinelFreeInputIsForwardedOrHeld ==
    ~ContainsSentinel(mpi_received) =>
        /\ AppBytes(mpi.out) \o mpi.mpi_buffer = mpi_received
        /\ Dispatches(mpi.out) = <<>>
        /\ mpi.mpi_buffer # <<>> =>
               /\ mpi.state = "INIT"
               /\ Len(mpi.mpi_buffer) < Len(MPI_INIT)
               /\ StartsWith(MPI_INIT, mpi.mpi_buffer)
               /\ EndsWith(AppBytes(mpi.out), LF)

\* a chunk that ended inside a possible sentinel was followed by bytes that
\* showed it not to be one
HeldPrefixWasReleased ==
    /\ ~ContainsSentinel(mpi_received)
    /\ \E i \in 2..Len(mpi_received) - 1 :
           /\ mpi_received[i - 1] = LF
           /\ mpi_received[i] = 126
    /\ mpi.state = "DATA"
    /\ Len(mpi.out) >= 2
    /\ AppBytes(mpi.out) = mpi_received

-----------------------------------------------------------------------------
(* XML: claims *)

\* C7: with output_format "raw", whenever the handler has received all the
\* bytes sent and is in state DATA (no tag is under way), the application
\* bytes it has forwarded, concatenated, are the received bytes, byte for
\* byte.
RawForwardsInputByteForByte ==
    (xml.output_format = "raw" /\ xml_wire = <<>> /\ xml.state = "DATA")
        => xml.forwarded = xml_received

\* C8: a closing tag that does not match the current mode leaves the mode
\* and the mode stack as they are and emits no event, and no tag makes the
\* handler pop an empty mode stack.
UnmatchedClosingTagIsIgnored ==
    \A i \in 1..Len(xml.tags) :
        /\ (xml.tags[i].is_closing_tag
            /\ get_xml_mode(xml.tags[i].tag_name) # xml.tags[i].mode)
               => /\ xml.tags[i].mode_after = xml.tags[i].mode
                  /\ xml.tags[i].parent_modes_after = xml.tags[i].parent_modes
                  /\ xml.tags[i].events_after = xml.tags[i].events
        /\ xml.tags[i].raised # PopFromEmptyList

-----------------------------------------------------------------------------
(* Round trips: claims *)

\* C14: for every option byte other than IAC and every payload, once the
\* peer has received all the bytes that request_negotiation(option, data)
\* wrote, in any chunking, it has dispatched on_subnegotiation(option, data)
\* exactly once and nothing else, it has delivered no application bytes and
\* its parser is in state DATA.
SubnegotiationRoundTrips ==
    (rt_call.kind = "request_negotiation" /\ rt_wire = <<>>) =>
        /\ Dispatches(rt_peer.out) = <<SubnegotiationEvent(rt_call.option, rt_data)>>
        /\ AppBytes(rt_peer.out) = <<>>
        /\ rt_peer.state = "DATA"

\* a payload holding IAC SE went through
PayloadWithIacSeArrived ==
    /\ rt_call.kind = "request_negotiation"
    /\ rt_wire = <<>>
    /\ Contains(rt_data, <<IAC, SE>>)
    /\ Len(rt_peer.out) = 1

\* C15: for every byte sequence d, once the peer has received all the bytes
\* that Manager.write(d, escape=True) gave to the transport writer, in any
\* chunking, the application bytes it has delivered are exactly d and it has
\* dispatched no command and no subnegotiation.
EscapedWriteRoundTrips ==
    (rt_call.kind = "write" /\ rt_wire = <<>>) =>
        /\ AppBytes(rt_peer.out) = rt_data
        /\ Dispatches(rt_peer.out) = <<>>

\* a payload with a carriage return, a line feed and an IAC went through in
\* more than one chunk
LineEndingsAndIacArrived ==
    /\ rt_call.kind = "write"
    /\ rt_wire = <<>>
    /\ Contains(rt_data, <<CR>>) /\ Contains(rt_data, <<LF>>) /\ Contains(rt_data, <<IAC>>)
    /\ Len(rt_peer.out) > 1
    /\ AppBytes(rt_peer.out) = rt_data

-----------------------------------------------------------------------------
(* Manager: teardown *)

RECURSIVE Reverse(_)
Reverse(lst) == IF lst = <<>> THEN <<>> ELSE Append(Reverse(Tail(lst)), Head(lst))

\* C18: Manager.disconnect tears the chain down in reverse registration
\* order: on_connection_lost is called on the handler registered last first
\* and on the handler registered first last.
DisconnectTearsDownInReverse ==
    [][(is_connected /\ ~is_connected') => lost' = lost \o Reverse(handlers)]_vars

-----------------------------------------------------------------------------
(* Replay: claims *)

\* C16: across any sequence of connect, register and parse calls the data
\* passed to parse is never dropped, duplicated or reordered: what
\* handlers[0].on_data_received was given, followed by the read buffer, is
\* what was parsed; a parse made while the manager is not connected or has no
\* handler only appends to the read buffer, and a parse made while connected
\* with a handler gives the handler the buffered data followed by the new
\* data and empties the read buffer.
ParsedDataIsKeptInOrder ==
    /\ [](Flat(given) \o read_buffer = parsed)
    /\ [][parsed' # parsed =>
            IF ~is_connected \/ handlers = <<>>
            THEN /\ read_buffer' = read_buffer \o <<parsed'[Len(parsed')]>>
                 /\ given' = given
            ELSE /\ read_buffer' = <<>>
                 /\ given' = Append(given, read_buffer \o <<parsed'[Len(parsed')]>>)]_vars

\* data buffered while connected without a handler reached the handler, with
\* new data behind it, at the first parse after register
BufferedDataCameFirst ==
    /\ last_call.op = "parse"
    /\ is_connected
    /\ Len(given) = 1
    /\ Len(given[1]) = 3
    /\ given[1] = parsed
    /\ read_buffer = <<>>

\* C17: when connect is called on a manager that holds buffered writes and
\* buffered reads and has a handler, the transport writer is given the
\* buffered writes first and the answers the handler writes during the
\* replay of the reads after them, everything once, and the write buffer is
\* left empty.
BufferedWritesGoFirst ==
    [][(/\ ~is_connected /\ is_connected'
        /\ handlers # <<>>
        /\ write_buffer # <<>>
        /\ read_buffer # <<>>) =>
           /\ Flat(sent') = Flat(sent) \o write_buffer \o Answers(read_buffer)
           /\ write_buffer' = <<>>]_vars

\* connect found a buffered write and a buffered request, and the writer got
\* the write and then the answer
ConnectFlushedThenAnswered ==
    /\ last_call.op = "connect"
    /\ Flat(sent) = <<"written", "IAC WONT">>
    /\ Flat(given) = <<"IAC DO">>
    /\ write_buffer = <<>>

-----------------------------------------------------------------------------
(* Registration: claims *)

\* the exception Manager.register(handler) and Manager.unregister(handler)
\* are to raise for the chain as it is, "" for none
Refusal(op, handler) ==
    IF op = "register"
    THEN IF handler.kind = "instance" THEN "TypeError"
         ELSE IF \E i \in 1..Len(handlers) : handler_class[handlers[i]] = handler.id
         THEN "ValueError"
         ELSE ""
    ELSE IF handler.kind = "class" THEN "TypeError"
         ELSE IF \A i \in 1..Len(handlers) : handlers[i] # handler.id
         THEN "ValueError"
         ELSE ""

\* C19: register raises TypeError when given an instance and ValueError when
\* a handler of that class is registered already, unregister raises
\* TypeError when given a class and ValueError when the instance is not in
\* the chain; a call that raises leaves the chain and every handler's
\* receiver as they were and calls neither on_connection_made nor
\* on_connection_lost.
RefusedRegistrationChangesNothing ==
    [][<<asked, last_call>>' # <<asked, last_call>> =>
           /\ last_call'.raised = Refusal(last_call'.op, asked')
           /\ last_call'.raised # "" =>
                  /\ handlers' = handlers
                  /\ receiver' = receiver
                  /\ handler_class' = handler_class
                  /\ made' = made
                  /\ lost' = lost]_vars

\* a class was refused a second registration while two handlers were in the
\* chain, both started and neither stopped
DuplicateClassWasRefused ==
    /\ last_call.op = "register"
    /\ last_call.raised = "ValueError"
    /\ asked.kind = "class"
    /\ Len(handlers) = 2
    /\ made = handlers
    /\ lost = <<>>

-----------------------------------------------------------------------------
(* Join: claims *)

\* C20: when MPIProtocol.on_connection_lost returns, every worker thread
\* that on_command started for an E or a V message has terminated, and the
\* handler's list of threads is empty.
WorkersAreJoinedBeforeReturn ==
    lost_pc = "returned" =>
        /\ \A thread \in Started : thread_state[thread] = "terminated"
        /\ mpi_threads = <<>>

\* on_connection_lost has returned after an edit and a view thread were
\* started
EditAndViewWereJoined ==
    /\ lost_pc = "returned"
    /\ \E thread \in Started : thread_target[thread] = 69
    /\ \E thread \in Started : thread_target[thread] = 86

-----------------------------------------------------------------------------
(* Stream: claims *)

IsPrefix(part, data) == Len(part) <= Len(data) /\ SubSeq(data, 1, Len(part)) = part

\* C21: once MCCP has been negotiated on, the bytes received before the
\* activation sentinel are forwarded to the Telnet layer as they are, the
\* sentinel is not forwarded, every byte after the sentinel is forwarded
\* decompressed, and once bytes that follow the end of the compressed stream
\* have arrived they are forwarded as they are, compression_enabled is false
\* and the option's him.enabled and him.negotiating are false: what was
\* forwarded is always the beginning of the server's stream without
\* compression, all of it when nothing is on the wire or held, and no call
\* raises.
DecompressedStreamIsForwarded ==
    stream_phase \in {"agreed", "compressed", "ended"} =>
        /\ mccp_raised = ""
        /\ IsPrefix(stream_forwarded, stream_plain)
        /\ (wire = <<>> /\ compressed_input_buffer = <<>>) => stream_forwarded = stream_plain
        /\ (stream_phase = "ended" /\ Len(wire) < Len(stream_tail)) =>
               /\ ~compression_enabled
               /\ ~mccp_option_states[stream_option].him.enabled
               /\ ~mccp_option_states[stream_option].him.negotiating

\* plain data, the sentinel, compressed data, the end of the compressed
\* stream and plain data again have all been received
TailAfterCompressionArrived ==
    /\ stream_phase = "ended"
    /\ wire = <<>>
    /\ stream_tail # <<>>
    /\ Len(stream_plain) > Len(stream_tail) + 4
    /\ stream_forwarded = stream_plain
    /\ ~compression_enabled

\* C22: while compression is not enabled, the handler alters and drops no
\* byte other than an activation sentinel: the bytes forwarded so far
\* followed by the bytes held in its input buffer are the bytes received so
\* far; and bytes are held only when MCCP has been negotiated on and they are
\* a lone IAC or begin with IAC SB and have no SE.
PlainBytesPassUntouched ==
    (~compression_enabled /\ stream_phase \notin {"ended"}) =>
        /\ stream_forwarded \o compressed_input_buffer = stream_received
        /\ compressed_input_buffer # <<>> =>
               /\ mccp_version # None
               /\ \/ compressed_input_buffer = <<IAC>>
                  \/ /\ StartsWith(compressed_input_buffer, IAC_SB)
                     /\ Find(compressed_input_buffer, SE) = 0

-----------------------------------------------------------------------------
(* Message: claims *)

\* C23: for well-formed messages LF ~$#E <cmd> <digits> LF <body> with cmd E
\* or V and a declared length of at least 1, in any chunking, the handler
\* forwards only the bytes up to and including the leading LF as application
\* bytes, starts one worker per message, for on_command(cmd, body) with the
\* declared number of body bytes, and is in state DATA after the last body
\* byte.
KnownMessageStartsOneWorker ==
    msg_kinds \subseteq {"known", "text"} =>
        /\ IsPrefix(AppBytes(mpi.out), msg_app)
        /\ IsPrefix(Dispatches(mpi.out), msg_threads)
        /\ mpi_wire = <<>> =>
               /\ AppBytes(mpi.out) = msg_app
               /\ Dispatches(mpi.out) = msg_threads
               /\ mpi.state = "DATA"

\* two well-formed messages were received and started a worker each, the
\* second for a body of two bytes
TwoWorkersWereStarted ==
    /\ msg_kinds = {"known"}
    /\ mpi_wire = <<>>
    /\ Len(Dispatches(mpi.out)) = 2
    /\ Len(Dispatches(mpi.out)[2].d) = 2
    /\ AppBytes(mpi.out) = <<LF, LF>>

\* C24: if the length field after LF ~$#E <cmd> is empty or holds a
\* non-digit before its LF, no command is dispatched for the message, the
\* sentinel, the command byte and every byte received for the length field
\* are forwarded as application data, so that the application bytes are the
\* input byte for byte, and parsing goes on as for ordinary data.
BadLengthIsForwarded ==
    ("malformed" \in msg_kinds /\ "unknown" \notin msg_kinds) =>
        /\ IsPrefix(AppBytes(mpi.out), msg_app)
        /\ IsPrefix(Dispatches(mpi.out), msg_threads)
        /\ mpi_wire = <<>> =>
               /\ AppBytes(mpi.out) = msg_app
               /\ Dispatches(mpi.out) = msg_threads
               /\ mpi.state \in {"DATA", "NEWLINE"}
               /\ mpi.mpi_buffer = <<>>

\* a message with a bad length field was forwarded whole, and a well-formed
\* message after it started a worker
WorkerStartedAfterBadLength ==
    /\ msg_kinds = {"malformed", "known"}
    /\ mpi_wire = <<>>
    /\ Len(Dispatches(mpi.out)) = 1
    /\ Len(mpi.out) = 2
    /\ mpi.out[2].t = "thread"
    /\ Len(AppBytes(mpi.out)) > 6

\* C25: for every well-formed message whose command is not in the command
\* map no worker is started and the application bytes forwarded for it are
\* the message as received: sentinel, command, the length digits as
\* received, LF and body.
UnknownCommandIsForwardedAsReceived ==
    "unknown" \in msg_kinds =>
        /\ IsPrefix(Dispatches(mpi.out), msg_threads)
        /\ mpi_wire = <<>> =>
               /\ AppBytes(mpi.out) = msg_app
               /\ Dispatches(mpi.out) = msg_threads

-----------------------------------------------------------------------------
(* Claims about one document received by an XMLProtocol handler.            *)

\* data without its tags; in format tintin each tag gives its replacement
RECURSIVE Rendered(_, _)
Rendered(output_format, data) ==
    IF ~Partition(data, LT).separator THEN data
    ELSE Partition(data, LT).head
         \o (IF output_format = "tintin"
             THEN get_tintin_tag_replacement(Partition(Partition(data, LT).tail, GT).head,
                                             tintin_replacements)
             ELSE <<>>)
         \o Rendered(output_format, Partition(Partition(data, LT).tail, GT).tail)

DocumentReceived(doc) ==
    markup_doc = doc /\ xml_sent = 1 /\ xml_wire = <<>>

EventsOfRoomExample ==
    << [name |-> b_room, data |-> <<105, 100, 61, 49>>],
       [name |-> b_name, data |-> <<70, 111, 111>>],
       [name |-> b_exits, data |-> <<110>>],
       [name |-> b_dynamic, data |-> <<98, 97, 114>>] >>

Foobarn == <<70, 111, 111, 98, 97, 114, 110>>

\* C26 as stated: in format 'normal' the room example is forwarded as
\* Foobarn followed by one LF, with the events room, name(Foo), exits(n),
\* dynamic(bar) in this order
RoomExampleEndsWithLF ==
    (DocumentReceived(RoomExample) /\ xml.output_format = "normal") =>
        /\ xml.forwarded = Foobarn \o <<LF>>
        /\ xml.events = EventsOfRoomExample

\* C26 amended: in format 'normal' the room example is forwarded as the
\* seven bytes Foobarn, the text of the input without its tags and with no
\* LF added, and the events are room(id=1), name(Foo), exits(n),
\* dynamic(bar) in this order, however the input is split over calls
RoomExampleIsForwardedWithoutTags ==
    (DocumentReceived(RoomExample) /\ xml.output_format = "normal") =>
        /\ xml.raised = ""
        /\ xml.forwarded = Foobarn
        /\ xml.forwarded = Rendered("normal", RoomExample.before)
        /\ xml.events = EventsOfRoomExample
        /\ xml.mode = "NONE"

RoomExampleWasReceived ==
    /\ DocumentReceived(RoomExample)
    /\ xml.output_format = "normal"
    /\ xml_received = RoomExample.before
    /\ xml.forwarded = Foobarn
    /\ Len(xml.events) = 4

\* C27: in the formats 'normal' and 'tintin', what is forwarded of a
\* document with a <gratuitous> ... </gratuitous> pair is the text (and in
\* 'tintin' the tag replacements) of the bytes before the pair followed by
\* that of the bytes after it: nothing is forwarded while the pair is open,
\* and the events of the tags inside the pair are emitted with their text
GratuitousIsNotForwarded ==
    (markup_doc.pair /\ xml.output_format \in {"normal", "tintin"}) =>
        /\ xml.raised = ""
        /\ IsPrefix(xml.forwarded,
                    Rendered(xml.output_format, markup_doc.before)
                    \o Rendered(xml.output_format, markup_doc.after))
        /\ xml.gratuitous =>
               xml.forwarded = Rendered(xml.output_format, markup_doc.before)
        /\ xml_wire = <<>> =>
               /\ xml.forwarded = Rendered(xml.output_format, markup_doc.before)
                                  \o Rendered(xml.output_format, markup_doc.after)
               /\ \A event \in markup_doc.inside_events :
                      \E i \in 1..Len(xml.events) : xml.events[i] = event

GratuitousPromptWasSuppressed ==
    /\ DocumentReceived(GratuitousPrompt)
    /\ xml.output_format = "tintin"
    /\ xml.forwarded = <<97>> \o upper(b_prompt) \o <<58, 113, 58>> \o upper(b_prompt)
    /\ \E i \in 1..Len(xml.events) : xml.events[i] = [name |-> b_prompt, data |-> <<112>>]

-----------------------------------------------------------------------------
(* Claims about GMCPMixIn.                                                  *)

IsCoreHello(data) ==
    /\ GMCP_MESSAGE_REGEX_search(data).matched
    /\ lower(GMCP_MESSAGE_REGEX_search(data).package) = core_hello

HelloReceivedBy(i) ==
    \E j \in 1..i : gmcp_log[j].name = "on_gmcp" /\ IsCoreHello(gmcp_log[j].argument)

\* C28: on a server, a Core.Hello is never passed to on_gmcp_message;
\* is_gmcp_initialized is false until the first Core.Hello, true after it
\* and never false again; every other message that matches
\* GMCP_MESSAGE_REGEX is passed to on_gmcp_message exactly once, with its
\* package in lower case and its value, Hello or no Hello before it
HelloInitializesServer ==
    \A i \in 1..Len(gmcp_log) :
        ~gmcp_log[i].after.is_client =>
            /\ gmcp_log[i].after.is_gmcp_initialized = HelloReceivedBy(i)
            /\ gmcp_log[i].before.is_gmcp_initialized => gmcp_log[i].after.is_gmcp_initialized
            /\ gmcp_log[i].name = "on_gmcp" =>
                   IF ~GMCP_MESSAGE_REGEX_search(gmcp_log[i].argument).matched
                   THEN gmcp_log[i].after.messages = <<>>
                   ELSE IF IsCoreHello(gmcp_log[i].argument)
                   THEN gmcp_log[i].after.messages = <<>>
                   ELSE gmcp_log[i].after.messages =
                            << [package |-> lower(GMCP_MESSAGE_REGEX_search(
                                                      gmcp_log[i].argument).package),
                                value |-> GMCP_MESSAGE_REGEX_search(
                                              gmcp_log[i].argument).value] >>

\* the Core.Hello subnegotiation of a client with the client info info
HelloOf(info) ==
    <<IAC, SB, GMCP>>
    \o (IF info = EmptyDict THEN <<67, 111, 114, 101, 46, 72, 101, 108, 108, 111, 32, 123, 125>>
        ELSE <<67, 111, 114, 101, 46, 72, 101, 108, 108, 111, 32, 123, 34, 99, 108, 105, 101, 110, 116, 34, 58, 32, 34, 99, 34, 44, 32, 34, 118, 101, 114, 115, 105, 111, 110, 34, 58, 32, 34, 49, 34, 125>>)
    \o <<IAC, SE>>

\* the perspective that a received WILL or DO enables
Perspective(state, command) == IF command = WILL THEN state.him ELSE state.us

BecameEnabledAt(i) ==
    /\ gmcp_log[i].name = "on_command"
    /\ gmcp_log[i].argument \in {<<WILL>>, <<DO>>}
    /\ ~Perspective(gmcp_log[i].before.state, gmcp_log[i].argument[1]).enabled
    /\ Perspective(gmcp_log[i].after.state, gmcp_log[i].argument[1]).enabled

-----------------------------------------------------------------------------
(* Claims about NAWSMixIn.                                                  *)

\* a 16-bit value as two bytes, most significant first, IAC doubled
Doubled(byte) == IF byte = IAC THEN <<IAC, IAC>> ELSE <<byte>>
BigEndianDoubled(value) ==
    Doubled((value - (value % 256)) \div 256) \o Doubled(value % 256)

ValidSets == SelectSeq(naws_sets, LAMBDA set : set.raised = "")

\* C30: setting naws_dimensions on a client to a width and height in
\* 0..65535 writes IAC SB NAWS, the width and the height as 16-bit
\* big-endian values with each byte 255 doubled, and IAC SE; a server that
\* has parsed those bytes has naws_dimensions equal to the last width and
\* height set and has written nothing
WindowSizeReachesServer ==
    /\ \A i \in 1..Len(naws_sets) :
           IF naws_sets[i].value[1] \in 0..65535 /\ naws_sets[i].value[2] \in 0..65535
           THEN /\ naws_sets[i].raised = ""
                /\ naws_sets[i].written =
                       <<IAC, SB, NAWS>> \o BigEndianDoubled(naws_sets[i].value[1])
                       \o BigEndianDoubled(naws_sets[i].value[2]) \o <<IAC, SE>>
           ELSE naws_sets[i].raised = ValueError /\ naws_sets[i].written = <<>>
    /\ naws_server.written = <<>>
    /\ naws_server.raised = ""
    /\ (naws_wire = <<>> /\ ValidSets # <<>>) =>
           naws_server.naws_dimensions = ValidSets[Len(ValidSets)].value
    /\ naws_server.naws_dimensions \in
           {<<0, 0>>} \cup {ValidSets[i].value : i \in 1..Len(ValidSets)}

LargestWindowReachedServer ==
    /\ Len(naws_sets) = 1
    /\ naws_sets[1].value = <<65535, 65520>>
    /\ naws_sets[1].written = <<IAC, SB, NAWS, IAC, IAC, IAC, IAC, IAC, IAC, 240, IAC, SE>>
    /\ naws_wire = <<>>
    /\ naws_server.naws_dimensions = <<65535, 65520>>

-----------------------------------------------------------------------------
(* Claims about the order of what a TelnetProtocol handler emits.           *)

\* the application bytes that out holds before its k-th callback
RECURSIVE AppBytesBefore(_, _)
AppBytesBefore(out, k) ==
    IF out = <<>> THEN <<>>
    ELSE IF out[1].t = "app" THEN out[1].d \o AppBytesBefore(Tail(out), k)
    ELSE IF k = 1 THEN <<>>
    ELSE AppBytesBefore(Tail(out), k - 1)

\* C31: the callbacks a TelnetProtocol handler invokes are those of the
\* commands, negotiations and subnegotiations of the received stream, in
\* stream order, and when a callback is invoked the receiver has been given
\* exactly the application bytes that precede it in the stream
CallbacksFollowPrecedingBytes ==
    /\ IsPrefix(Dispatches(order_telnet.out), Dispatches(order_items))
    /\ \A k \in 1..Len(Dispatches(order_telnet.out)) :
           AppBytesBefore(order_telnet.out, k) = AppBytesBefore(order_items, k)
    /\ IsPrefix(AppBytes(order_telnet.out), AppBytes(order_items))
    /\ order_wire = <<>> => Joined(order_telnet.out) = Joined(order_items)

TextBetweenCallbacksArrived ==
    /\ order_wire = <<>>
    /\ order_items = <<AppEvent(<<65>>), CommandEvent(WILL, ECHO), AppEvent(<<IAC>>)>>
    /\ order_telnet.out = order_items

-----------------------------------------------------------------------------
\* C32: in every sequence of local will/wont/do/dont calls and received
\* negotiation commands, on_will is not entered with him.enabled and
\* him.negotiating both true and on_do is not entered with us.enabled and
\* us.negotiating both true, so neither raises its bogus-state
\* AssertionError
BogusStateIsNeverEntered ==
    \A i \in 1..Len(log) :
        /\ log[i].kind = "WILL" => ~Both(log[i].pre.him)
        /\ log[i].kind = "DO" => ~Both(log[i].pre.us)
        /\ (log[i].kind \in {"WILL", "DO"} /\ log[i].raised = "AssertionError") =>
               log[i].answer = "False"

-----------------------------------------------------------------------------
\* C33: in the formats 'normal' and 'tintin' the entity references of
\* received text are resolved in the forwarded bytes, however the input is
\* split over calls: of a&lt;b&#67; the bytes a<bC are forwarded
EntitiesAreResolvedInAnyChunking ==
    (DocumentReceived(EntityText) /\ xml.output_format \in {"normal", "tintin"}) =>
        xml.forwarded = <<97, LT, 98, 67>>

-----------------------------------------------------------------------------
(* Claims about two endpoints that negotiate with each other.               *)

\* C34: however the calls of the two applications and the deliveries
\* interleave, at most two commands are written for each call, no dispatch
\* raises, and once both channels are empty no perspective is negotiating
\* and each endpoint's view of the other agrees with the other's view of
\* itself
EndpointsAgreeWhenQuiet ==
    /\ link_written <= 2 * link_calls
    /\ \A e \in Endpoints : link[e].raised = ""
    /\ (\A e \in Endpoints : channel[e] = <<>>) =>
           \A e \in Endpoints :
               /\ ~link[e].state.us.negotiating
               /\ ~link[e].state.him.negotiating
               /\ link[e].state.us.enabled = link[Other(e)].state.him.enabled

CrossingRequestsAgreed ==
    /\ link_calls = 2
    /\ link_written = 2
    /\ \A e \in Endpoints : channel[e] = <<>>
    /\ link["A"].state.us.enabled
    /\ link["B"].state.him.enabled

-----------------------------------------------------------------------------
(* Claims about the calls a handler receives over the life of a Manager.    *)

\* C35: when disconnect has returned, the chain is empty and every handler
\* whose on_connection_made register has called has had on_connection_lost
\* called exactly once, whether or not connect was called before register
DisconnectLosesEveryHandlerMade ==
    returned = "disconnect" =>
        /\ handlers = <<>>
        /\ \A i \in 1..Len(made) : Occurrences(made[i], lost) = 1

-----------------------------------------------------------------------------
(* Claims about the replies of workers and Manager.disconnect.              *)

\* C36: when disconnect has returned, the reply the edit worker has written
\* has been passed to the transport writer and is not in the write buffer,
\* wherever the MPI handler stood in the chain
WorkerReplyReachesWriter ==
    (disconnected /\ MPIReply \in issued) =>
        /\ Occurrences(MPIReply, Flat(sent)) = 1
        /\ Occurrences(MPIReply, write_buffer) = 0

-----------------------------------------------------------------------------
(* Claims about the activation sentinels of the two MCCP versions.          *)

\* C37: compression is enabled only when the peer has sent the activation
\* sentinel of the MCCP version that was negotiated: the MCCP1 sentinel
\* enables nothing when MCCP2 was negotiated, nor the MCCP2 sentinel when
\* MCCP1 was
OnlyNegotiatedSentinelActivates ==
    compression_enabled =>
        sentinel_sent = (IF mccp_version = 1 THEN MCCP1 ELSE MCCP2)

-----------------------------------------------------------------------------
(* Claims about the mode and the stack of parent modes of XMLProtocol.      *)

\* C38: in every reachable state the mode is NONE exactly when the stack of
\* parent modes is empty, and a stack that is not empty has NONE at the
\* bottom and nowhere else
ModeStackIsWellFormed ==
    /\ (xml.mode = "NONE") <=> (xml.parent_modes = <<>>)
    /\ \A i \in 1..Len(xml.parent_modes) : (xml.parent_modes[i] = "NONE") <=> (i = 1)

MagicInsideNameInsideRoom ==
    /\ xml.mode = "MAGIC"
    /\ xml.parent_modes = <<"NONE", "ROOM", "NAME">>

-----------------------------------------------------------------------------
(* Claims about MPI messages that follow each other directly.               *)

\* C39: a sentinel that directly follows an LF of the stream is recognised,
\* also when that LF is the last byte of the body of the message before it:
\* once all bytes are received, every message sent has been dispatched
BackToBackMessagesAreDispatched ==
    /\ IsPrefix(Dispatches(mpi.out), back_threads)
    /\ mpi_wire = <<>> => Dispatches(mpi.out) = back_threads

-----------------------------------------------------------------------------
(* Claims about the charset exchange of two CharsetMixIn endpoints.         *)

\* C40: the exchange that a negotiate_charset call starts terminates: from
\* some point on no CHARSET subnegotiation is in flight and none is written
CharsetExchangeTerminates ==
    <>[](\A e \in Endpoints : charset_channel[e] = <<>>)

====
